---- MODULE Spec2Model ----
(***************************************************************************)
(* Tockus drum voice (hugelton/BirdsBoard): the desktop engine TockusDSP   *)
(* (Firmware/Tockus/simulator/src/tockus_dsp.cpp) and the firmware loop    *)
(* (Firmware/Tockus/Tockus.ino).                                           *)
(*                                                                         *)
(* Number representation.  The code computes in IEEE floats; the model     *)
(* computes in fixed point:                                                *)
(*   - signal values, envelopes, gains, filter coefficients: 1/SCALE       *)
(*   - frequencies: 1/FREQ_UNIT Hz (deci-hertz)                            *)
(*   - decay rates: milli-hertz; the normalised controls: per-mille        *)
(*   - phases: 1/SCALE of a turn (2*PI radians = SCALE)                    *)
(*   - time: milliseconds, as getTimeMs() and millis() return it           *)
(*   - ADC filter values: 1/ADC_UNIT of an ADC count                       *)
(* exp, tanh, sin, cos and pow are tables with linear interpolation.       *)
(* Integer state (ADC counts, indices, counters, the 32-bit noise state,   *)
(* the int16 sample) is exact.                                             *)
(***************************************************************************)
EXTENDS Integers, Sequences, FiniteSets, TLC

\* ------------------------------------------------------------------------
\* Units of the fixed-point representation
\* ------------------------------------------------------------------------
SCALE == 10000

FREQ_UNIT == 10

ADC_UNIT == 100

\* ------------------------------------------------------------------------
\* Program constants
\* ------------------------------------------------------------------------
ALGO_BASS == 0

ALGO_SNARE == 1

ALGO_HIHAT == 2

ALGO_KARPLUS == 3

ALGO_MODAL == 4

ALGO_ZAP == 5

ALGO_CLAP == 6

ALGO_COWBELL == 7

NUM_ALGORITHMS == 8

NUM_MODES == 4

KARPLUS_BUFFER_SIZE == 200

PITCH_CV_MIN == 0

PITCH_CV_MAX == 4095

PITCH_KNOB_MIN == 10

PITCH_KNOB_MAX == 4000

CV1_MIN == 8

CV1_MAX == 2000

CV2_MIN == 8

CV2_MAX == 2000

\* MASTER_GAIN 2.0 and LOWPASS_ALPHA 0.7, in 1/SCALE
MASTER_GAIN == 20000

LOWPASS_ALPHA == 7000

\* const int amplitude = 32767 (firmware int16 scaling)
amplitude == 32767

INT16_MIN == -32768

INT16_MAX == 32767

\* the 0.001 threshold of the envelope, in 1/SCALE
ENV_THRESHOLD == 10

\* RATE_LIMIT_MS of the ADC conditioner
RATE_LIMIT_MS == 1

\* ------------------------------------------------------------------------
\* Arithmetic helpers
\* ------------------------------------------------------------------------
Abs(x) == IF x < 0 THEN -x ELSE x

Min(a, b) == IF a < b THEN a ELSE b

Max(a, b) == IF a > b THEN a ELSE b

\* std::max(lo, std::min(x, hi)) and Arduino's constrain(x, lo, hi)
Clamp(x, lo, hi) == Max(lo, Min(x, hi))

\* C's integer division and float->integer conversion truncate toward zero
TruncDiv(a, b) == IF a >= 0 THEN a \div b ELSE -((-a) \div b)

\* floor(a * b / SCALE) for fixed-point a and b without leaving 32 bits: both
\* are split into their integer and fractional parts
Mul(a, b) ==
  LET ah == a \div SCALE
      al == a % SCALE
      bh == b \div SCALE
      bl == b % SCALE
  IN  ah * bh * SCALE + ah * bl + al * bh + ((al * bl) \div SCALE)

\* (uint16_t) and (uint8_t) conversions of an integer value
ToUint16(x) == x % 65536

ToUint8(x) == x % 256

\* Arduino map(): (x - in_min) * (out_max - out_min) / (in_max - in_min) + out_min
ArduinoMap(x, inMin, inMax, outMin, outMax) ==
  TruncDiv((x - inMin) * (outMax - outMin), inMax - inMin) + outMin

\* ---- exp(-x): table of floor(SCALE * exp(-k/8)), linear in between
ExpTable ==
  << 10000, 8824, 7788, 6872, 6065, 5352, 4723, 4168, 3678, 3246, 2865, 2528,
     2231, 1969, 1737, 1533, 1353, 1194, 1053, 930, 820, 724, 639, 564, 497,
     439, 387, 342, 301, 266, 235, 207, 183, 161, 142, 125, 111, 98, 86, 76,
     67, 59, 52, 46, 40, 36, 31, 28, 24, 21, 19, 17, 15, 13, 11, 10, 9, 8, 7,
     6, 5, 4, 4, 3, 3, 2, 2, 2, 2, 1, 1, 1, 1, 1, 0, 0 >>

\* xm: the exponent's magnitude in 1/1000; the result in 1/SCALE
ExpNeg(xm) ==
  LET i == xm \div 125
      r == xm % 125
  IN  IF xm <= 0 THEN SCALE
      ELSE IF i + 2 > Len(ExpTable) THEN 0
      ELSE ExpTable[i + 1] - (((ExpTable[i + 1] - ExpTable[i + 2]) * r) \div 125)

\* exp(-rate * t) for a rate in milli-hertz and a time in milliseconds
ExpDecay(rateMilli, tMs) ==
  IF rateMilli * (tMs \div 1000) >= 10000000 THEN 0
  ELSE ExpNeg(rateMilli * (tMs \div 1000) + ((rateMilli * (tMs % 1000)) \div 1000))

\* ---- tanh(x): table of round(SCALE * tanh(k/4)), odd, 1.0 beyond the table
TanhTable ==
  << 0, 2449, 4621, 6351, 7616, 8483, 9051, 9414, 9640, 9780, 9866, 9919,
     9951, 9970, 9982, 9989, 9993, 9996, 9998, 9999, 9999, 9999, 10000 >>

TanhPos(x) ==
  LET i == x \div 2500
      r == x % 2500
  IN  IF i + 2 > Len(TanhTable) THEN SCALE
      ELSE TanhTable[i + 1] + (((TanhTable[i + 2] - TanhTable[i + 1]) * r) \div 2500)

\* x and the result in 1/SCALE
Tanh(x) == IF x >= 0 THEN TanhPos(x) ELSE -TanhPos(-x)

\* ---- sin and cos of an angle given in 1/SCALE of a turn
SinTable ==
  << 0, 628, 1253, 1874, 2487, 3090, 3681, 4258, 4818, 5358, 5878, 6374,
     6845, 7290, 7705, 8090, 8443, 8763, 9048, 9298, 9511, 9686, 9823, 9921,
     9980, 10000 >>

\* first quarter turn: q in 0..2500
SinQuarter(q) ==
  LET i == q \div 100
      r == q % 100
  IN  IF i >= 25 THEN SCALE
      ELSE SinTable[i + 1] + (((SinTable[i + 2] - SinTable[i + 1]) * r) \div 100)

SinTurn(a) ==
  LET t == a % SCALE
  IN  IF t <= 2500 THEN SinQuarter(t)
      ELSE IF t <= 5000 THEN SinQuarter(5000 - t)
      ELSE IF t <= 7500 THEN -SinQuarter(t - 5000)
      ELSE -SinQuarter(SCALE - t)

CosTurn(a) == SinTurn(a + 2500)

\* ---- pow(2, x): table of round(SCALE * 2^(k/8)), linear in between
Pow2Table == << 10000, 10905, 11892, 12968, 14142, 15422, 16818, 18340, 20000 >>

\* 2^(f/1000) for f in 0..999, in 1/SCALE
Pow2Frac(f) ==
  LET i == f \div 125
      r == f % 125
  IN  Pow2Table[i + 1] + (((Pow2Table[i + 2] - Pow2Table[i + 1]) * r) \div 125)

RECURSIVE Pow2Int(_)
Pow2Int(n) == IF n <= 0 THEN 1 ELSE 2 * Pow2Int(n - 1)

\* 440.0 * pow(2.0, oct - 4.0): oct in 1/1000 octave (0..6000), result in
\* 1/FREQ_UNIT Hz
BaseFreqOf(octMilli) ==
  LET whole == octMilli \div 1000
      frac  == octMilli % 1000
  IN  (((440 * FREQ_UNIT * Pow2Int(whole)) \div 16) * Pow2Frac(frac)) \div SCALE

\* ------------------------------------------------------------------------
\* NoiseSource: uint32_t noiseState kept as two 16-bit halves
\* ------------------------------------------------------------------------
\* noiseState * 1103515245 + 12345 modulo 2^32 (1103515245 = 16838 * 2^16 + 20077)
NextNoiseState(s) ==
  LET low == s.lo * 20077 + 12345
  IN  [ lo |-> low % 65536,
        hi |-> (((s.hi * 20077) % 65536) + ((s.lo * 16838) % 65536)
                + (low \div 65536)) % 65536 ]

\* ((noiseState >> 16) & 0x7FFF) / 32768.0f - 1.0f, in 1/SCALE
NoiseValue(s) == (((s.hi % 32768) * SCALE) \div 32768) - SCALE

\* generateWhiteNoise(): the new engine state and the value returned
GenerateWhiteNoise(d) ==
  LET s == NextNoiseState(d.noiseState)
  IN  [ d |-> [d EXCEPT !.noiseState = s], v |-> NoiseValue(s) ]

\* ------------------------------------------------------------------------
\* BiquadBandpass
\* ------------------------------------------------------------------------
\* w = 2 * PI * f / sampleRate, as 1/SCALE of a turn (f in 1/FREQ_UNIT Hz)
OmegaTurn(f, sampleRate) == (f * (SCALE \div FREQ_UNIT)) \div sampleRate

\* the coefficient assignments of setBandpassFilter for alpha, cos(w) and
\* norm = 1 / (1 + alpha)
BandpassCoefficients(d, alpha, cosw, norm) ==
  [d EXCEPT !.bpf = [@ EXCEPT !.a0 = Mul(alpha, norm),
                              !.a1 = 0,
                              !.a2 = Mul(-alpha, norm),
                              !.b1 = Mul(-2 * cosw, norm),
                              !.b2 = Mul(SCALE - alpha, norm)]]

\* alpha = sin(w) / (2 * Q) and norm
BandpassAlpha(d, sinw, cosw, Q) ==
  BandpassCoefficients(d, (sinw * SCALE) \div (2 * Q), cosw,
                       (SCALE * SCALE) \div (SCALE + ((sinw * SCALE) \div (2 * Q))))

\* w = 2 * PI * centerFreq / sampleRate
BandpassOmega(d, w, Q) == BandpassAlpha(d, SinTurn(w), CosTurn(w), Q)

\* setBandpassFilter(centerFreq, Q): Q in 1/SCALE
SetBandpassFilter(d, centerFreq, Q) ==
  BandpassOmega(d, OmegaTurn(centerFreq, d.sampleRate), Q)

\* the difference equation of both biquads, for the filter record f
BiquadOutput(f, input) ==
  Mul(f.a0, input) + Mul(f.a1, f.x1) + Mul(f.a2, f.x2)
  - Mul(f.b1, f.y1) - Mul(f.b2, f.y2)

\* the shift of a biquad's delay lines
BiquadShift(f, input, output) ==
  [f EXCEPT !.x2 = f.x1, !.x1 = input, !.y2 = f.y1, !.y1 = output]

\* the state and the value processBandpassFilter leaves for the output computed
BandpassResult(d, input, output) ==
  [ d |-> [d EXCEPT !.bpf = BiquadShift(d.bpf, input, output)], v |-> output ]

\* processBandpassFilter(input)
ProcessBandpassFilter(d, input) == BandpassResult(d, input, BiquadOutput(d.bpf, input))

\* initializeBandpassFilter()
InitializeBandpassFilter(d) ==
  SetBandpassFilter([d EXCEPT !.bpf = [@ EXCEPT !.x1 = 0, !.x2 = 0, !.y1 = 0, !.y2 = 0]],
                    8000 * FREQ_UNIT, 2 * SCALE)

\* ------------------------------------------------------------------------
\* ResonantLowpass (bassFilter)
\* ------------------------------------------------------------------------
\* updateResonantFilter(&bassFilter, cutoff, resonance)
\* the coefficient assignments of updateResonantFilter for the clamped
\* cutoff and resonance, alpha, cos(w) and norm = 1 / (1 + alpha)
ResonantCoefficients(d, cutoff, resonance, alpha, cosw, norm) ==
  [d EXCEPT !.bassFilter =
     [@ EXCEPT !.cutoff = cutoff,
               !.resonance = resonance,
               !.a0 = Mul((SCALE - cosw) \div 2, norm),
               !.a1 = Mul(SCALE - cosw, norm),
               !.a2 = Mul((SCALE - cosw) \div 2, norm),
               !.b1 = Mul(-2 * cosw, norm),
               !.b2 = Mul(SCALE - alpha, norm)]]

\* alpha = sin(w) / (2 * resonance) and norm
ResonantAlpha(d, cutoff, resonance, sinw, cosw) ==
  ResonantCoefficients(d, cutoff, resonance, (sinw * SCALE) \div (2 * resonance), cosw,
                       (SCALE * SCALE) \div (SCALE + ((sinw * SCALE) \div (2 * resonance))))

\* w = 2 * PI * cutoff / sampleRate
ResonantOmega(d, cutoff, resonance, w) ==
  ResonantAlpha(d, cutoff, resonance, SinTurn(w), CosTurn(w))

\* the clamps of updateResonantFilter applied
ResonantClamped(d, cutoff, resonance) ==
  ResonantOmega(d, cutoff, resonance, OmegaTurn(cutoff, d.sampleRate))

\* updateResonantFilter(&bassFilter, cutoff, resonance)
UpdateResonantFilter(d, cutoffIn, resonanceIn) ==
  ResonantClamped(d, Clamp(cutoffIn, 20 * FREQ_UNIT, 8000 * FREQ_UNIT),
                  Clamp(resonanceIn, SCALE \div 2, 20 * SCALE))

\* the state and the value processResonantFilter leaves for the output computed
ResonantResult(d, input, output) ==
  [ d |-> [d EXCEPT !.bassFilter = BiquadShift(d.bassFilter, input, output)],
    v |-> output ]

\* processResonantFilter(&bassFilter, input)
ProcessResonantFilter(d, input) ==
  ResonantResult(d, input, BiquadOutput(d.bassFilter, input))

\* initializeResonantFilter()
InitializeResonantFilter(d) ==
  UpdateResonantFilter(
    [d EXCEPT !.bassFilter = [@ EXCEPT !.x1 = 0, !.x2 = 0, !.y1 = 0, !.y2 = 0,
                                       !.cutoff = 80 * FREQ_UNIT,
                                       !.resonance = 10 * SCALE]],
    80 * FREQ_UNIT, 10 * SCALE)

\* ------------------------------------------------------------------------
\* DelayLine (Karplus-Strong) and ModalBank initialisation
\* ------------------------------------------------------------------------
\* the loop of initializeKarplusStrong(): n successive noise values times
\* 0.5, from noise state s (evaluated by halves to keep the evaluation shallow)
RECURSIVE KarplusFill(_, _)
KarplusFill(s, n) ==
  IF n = 0 THEN [ buf |-> << >>, s |-> s ]
  ELSE IF n = 1
  THEN LET s2 == NextNoiseState(s)
       IN  [ buf |-> << NoiseValue(s2) \div 2 >>, s |-> s2 ]
  ELSE LET a == KarplusFill(s, n \div 2)
           b == KarplusFill(a.s, n - (n \div 2))
       IN  [ buf |-> a.buf \o b.buf, s |-> b.s ]

\* an initialisation that refills only the first half of the delay line
InitializeKarplusStrongFirstHalf(d) ==
  LET r == KarplusFill(d.noiseState, KARPLUS_BUFFER_SIZE \div 2)
  IN  [d EXCEPT !.karplusBuffer =
                   r.buf \o SubSeq(d.karplusBuffer, (KARPLUS_BUFFER_SIZE \div 2) + 1,
                                   KARPLUS_BUFFER_SIZE),
                !.noiseState = r.s, !.karplusIndex = 0]

\* initializeKarplusStrong(); the buffer is indexed 0 .. KARPLUS_BUFFER_SIZE-1
\* in the code and 1 .. KARPLUS_BUFFER_SIZE here
InitializeKarplusStrong(d) ==
  LET r == KarplusFill(d.noiseState, KARPLUS_BUFFER_SIZE)
  IN  [d EXCEPT !.karplusBuffer = r.buf, !.noiseState = r.s, !.karplusIndex = 0]

\* the harmonic ratios 1.0, 1.6, 2.3, 3.1 of the modes, in 1/10
ModeRatio == << 10, 16, 23, 31 >>

\* the mode amplitudes 1.0, 0.7, 0.5, 0.3
ModeAmplitude == << 10000, 7000, 5000, 3000 >>

\* the decay multipliers 1.0, 1.3, 1.8, 2.5, in 1/10
ModeDecayRatio == << 10, 13, 18, 25 >>

\* setupModalModes(): baseDecay = 2.0 + algorithmParam * 8.0 (milli-hertz)
SetupModalModes(d) ==
  LET baseDecay == 2000 + d.algorithmParam * 8
  IN  [d EXCEPT !.modes =
         [ i \in 1..NUM_MODES |->
             [ frequency |-> (d.currentFrequency * ModeRatio[i]) \div 10,
               amplitude |-> ModeAmplitude[i],
               decay     |-> (baseDecay * ModeDecayRatio[i]) \div 10,
               phase     |-> 0 ] ]]

\* initializeModalSynthesis()
InitializeModalSynthesis(d) == SetupModalModes(d)

\* ------------------------------------------------------------------------
\* FrequencyMapper
\* ------------------------------------------------------------------------
\* a frequency scaling whose Hi-hat and Clap cases pass the base frequency on
\* without the clamp
ScalingWithoutUnityClamp(baseFreq, algorithm) ==
  CASE algorithm = ALGO_BASS    -> Clamp(baseFreq \div 4, 20 * FREQ_UNIT, 150 * FREQ_UNIT)
    [] algorithm = ALGO_SNARE   -> Clamp(baseFreq \div 2, 100 * FREQ_UNIT, 400 * FREQ_UNIT)
    [] algorithm = ALGO_HIHAT   -> baseFreq
    [] algorithm = ALGO_KARPLUS -> Clamp(baseFreq \div 2, 80 * FREQ_UNIT, 800 * FREQ_UNIT)
    [] algorithm = ALGO_MODAL   -> Clamp(baseFreq * 4, 240 * FREQ_UNIT, 2400 * FREQ_UNIT)
    [] algorithm = ALGO_ZAP     -> Clamp((baseFreq * 10) \div 28, 50 * FREQ_UNIT, 500 * FREQ_UNIT)
    [] algorithm = ALGO_CLAP    -> baseFreq
    [] algorithm = ALGO_COWBELL -> Clamp(baseFreq * 4, 2000 * FREQ_UNIT, 8000 * FREQ_UNIT)
    [] OTHER                    -> Clamp(baseFreq, 20 * FREQ_UNIT, 8000 * FREQ_UNIT)

\* applyAlgorithmFrequencyScaling(baseFreq, algorithm), frequencies in
\* 1/FREQ_UNIT Hz
ApplyAlgorithmFrequencyScaling(baseFreq, algorithm) ==
  CASE algorithm = ALGO_BASS    -> Clamp(baseFreq \div 4, 20 * FREQ_UNIT, 150 * FREQ_UNIT)
    [] algorithm = ALGO_SNARE   -> Clamp(baseFreq \div 2, 100 * FREQ_UNIT, 400 * FREQ_UNIT)
    [] algorithm = ALGO_HIHAT   -> Clamp(baseFreq, 200 * FREQ_UNIT, 2000 * FREQ_UNIT)
    [] algorithm = ALGO_KARPLUS -> Clamp(baseFreq \div 2, 80 * FREQ_UNIT, 800 * FREQ_UNIT)
    [] algorithm = ALGO_MODAL   -> Clamp(baseFreq * 4, 240 * FREQ_UNIT, 2400 * FREQ_UNIT)
    [] algorithm = ALGO_ZAP     -> Clamp((baseFreq * 10) \div 28, 50 * FREQ_UNIT, 500 * FREQ_UNIT)
    [] algorithm = ALGO_CLAP    -> Clamp(baseFreq, 150 * FREQ_UNIT, 1500 * FREQ_UNIT)
    [] algorithm = ALGO_COWBELL -> Clamp(baseFreq * 4, 2000 * FREQ_UNIT, 8000 * FREQ_UNIT)
    [] OTHER                    -> Clamp(baseFreq, 20 * FREQ_UNIT, 8000 * FREQ_UNIT)

\* the volts-per-octave law of setParameters / updateParameters: the pitch
\* ADC count and the knob voltage (millivolts) to the unscaled base frequency
MapFrequency(pitchCV, knobMilliVolt) ==
  LET adcVoltage  == ((PITCH_CV_MAX - pitchCV) * 3300) \div PITCH_CV_MAX
      actualCV    == Clamp(TruncDiv((adcVoltage - 1650) * 1000, 330), 0, 5000)
      knobOctaves == TruncDiv((knobMilliVolt - 1650) * 1000, 1650)
  IN  BaseFreqOf(actualCV + knobOctaves + 1000) \div 2

\* ------------------------------------------------------------------------
\* EnvelopeEngine
\* ------------------------------------------------------------------------
\* a decay rate that ignores the parameter: each algorithm's slowest rate
DecayRateOfWithoutParam(algorithm, param) ==
  CASE algorithm = ALGO_BASS    -> 1500
    [] algorithm = ALGO_ZAP     -> 8000
    [] algorithm = ALGO_SNARE   -> 8 * 500
    [] algorithm = ALGO_HIHAT   -> 20 * 500
    [] algorithm = ALGO_KARPLUS -> 3000
    [] algorithm = ALGO_MODAL   -> 4000
    [] algorithm = ALGO_CLAP    -> 12 * 500
    [] algorithm = ALGO_COWBELL -> 4000
    [] OTHER                    -> 5000

\* a decay rate of zero for every algorithm and parameter
DecayRateOfZero(algorithm, param) == 0

\* the decay rate initializeEnvelopes() selects, in milli-hertz, for an
\* algorithm and a parameter in per-mille
DecayRateOf(algorithm, param) ==
  CASE algorithm = ALGO_BASS    -> 1500 + ((param * 35) \div 10)
    [] algorithm = ALGO_ZAP     -> 8000 + param * 12
    [] algorithm = ALGO_SNARE   -> 8 * (500 + ((param * 25) \div 10))
    [] algorithm = ALGO_HIHAT   -> 20 * (500 + ((param * 35) \div 10))
    [] algorithm = ALGO_KARPLUS -> 3000 + param * 5
    [] algorithm = ALGO_MODAL   -> 4000 + param * 6
    [] algorithm = ALGO_CLAP    -> 12 * (500 + ((param * 25) \div 10))
    [] algorithm = ALGO_COWBELL -> 4000 + param * 6
    [] OTHER                    -> 5000 + param * 5

\* initializeEnvelopes()
InitializeEnvelopes(d) ==
  LET e == [d EXCEPT !.envAmplitude = SCALE,
                     !.envFrequency = d.currentFrequency,
                     !.envDecayRate = DecayRateOf(d.currentAlgorithm, d.algorithmParam)]
      a == d.currentAlgorithm
  IN  CASE a = ALGO_BASS    -> [e EXCEPT !.bassFilterEnv = SCALE]
        [] a = ALGO_SNARE   -> [e EXCEPT !.snareNoiseAmp = SCALE, !.snareToneAmp = SCALE]
        [] a = ALGO_HIHAT   -> [e EXCEPT !.hihatEnvelope = SCALE]
        [] a = ALGO_KARPLUS ->
             InitializeKarplusStrong(
               [e EXCEPT !.karplusDamping = 9950 - d.algorithmParam * 2])
        [] a = ALGO_MODAL   -> SetupModalModes(e)
        [] a = ALGO_CLAP    -> [e EXCEPT !.clapPulseEnv = SCALE, !.clapReverbEnv = SCALE]
        [] a = ALGO_COWBELL -> [e EXCEPT !.cowbellPhases = [i \in 1..4 |-> 0]]
        [] OTHER            -> e

\* the four 10 ms pulses, 30 ms apart, of the clap envelope
RECURSIVE ClapPulses(_, _)
ClapPulses(t, i) ==
  IF i >= 4 THEN 0
  ELSE (IF t - i * 30 >= 0 /\ t - i * 30 <= 10 THEN ExpDecay(50000, t - i * 30) ELSE 0)
       + ClapPulses(t, i + 1)

\* an envelope rate that follows the controls instead of the value stored at
\* the trigger
EnvelopeRateLive(d) == DecayRateOf(d.currentAlgorithm, d.algorithmParam)

\* the rate of the amplitude envelope: the envDecayRate stored at the trigger
EnvelopeRate(d) == d.envDecayRate

\* updateEnvelopes(timeElapsed): t is the elapsed time in milliseconds
UpdateEnvelopes(d, t) ==
  [d EXCEPT
     !.envAmplitude = ExpDecay(EnvelopeRate(d), t),
     !.envFrequency =
        IF d.currentAlgorithm = ALGO_BASS \/ d.currentAlgorithm = ALGO_ZAP
        THEN d.currentFrequency
             + Mul(2 * d.currentFrequency,
                   ExpDecay(IF d.currentAlgorithm = ALGO_ZAP THEN 15000 ELSE 5000, t))
        ELSE d.currentFrequency,
     !.snareNoiseAmp = IF d.currentAlgorithm = ALGO_SNARE
                       THEN ExpDecay((d.envDecayRate * 15) \div 10, t) ELSE @,
     !.snareToneAmp  = IF d.currentAlgorithm = ALGO_SNARE
                       THEN ExpDecay(d.envDecayRate, t) ELSE @,
     !.hihatEnvelope = IF d.currentAlgorithm = ALGO_HIHAT
                       THEN ExpDecay(d.envDecayRate, t) ELSE @,
     !.clapPulseEnv  = IF d.currentAlgorithm = ALGO_CLAP THEN ClapPulses(t, 0) ELSE @,
     !.clapReverbEnv = IF d.currentAlgorithm = ALGO_CLAP
                       THEN ExpDecay(Mul(d.envDecayRate, 5000 + d.algorithmParam * 15), t)
                       ELSE @]

\* a real-time frequency update that moves the Karplus-Strong read index
\* whatever algorithm is selected
RealtimeFrequencyOfAnyAlgorithm(d, cf, newDelay) ==
  [d EXCEPT
     !.currentFrequency = cf,
     !.envFrequency = IF d.currentAlgorithm # ALGO_BASS /\ d.currentAlgorithm # ALGO_ZAP
                      THEN cf ELSE @,
     !.modes = IF d.currentAlgorithm = ALGO_MODAL
               THEN [ i \in 1..NUM_MODES |->
                        [d.modes[i] EXCEPT !.frequency = (cf * ModeRatio[i]) \div 10] ]
               ELSE @,
     !.karplusIndex = IF newDelay > 0 /\ newDelay < KARPLUS_BUFFER_SIZE * 1000
                      THEN (newDelay * 8) \div 10000 ELSE @]

\* the assignments of updateRealtimeFrequency() for the rescaled frequency cf
\* and newDelay = sampleRate / cf in 1/1000 sample
RealtimeFrequency(d, cf, newDelay) ==
  [d EXCEPT
     !.currentFrequency = cf,
     !.envFrequency = IF d.currentAlgorithm # ALGO_BASS /\ d.currentAlgorithm # ALGO_ZAP
                      THEN cf ELSE @,
     !.modes = IF d.currentAlgorithm = ALGO_MODAL
               THEN [ i \in 1..NUM_MODES |->
                        [d.modes[i] EXCEPT !.frequency = (cf * ModeRatio[i]) \div 10] ]
               ELSE @,
     !.karplusIndex = IF d.currentAlgorithm = ALGO_KARPLUS /\ newDelay > 0
                         /\ newDelay < KARPLUS_BUFFER_SIZE * 1000
                      THEN (newDelay * 8) \div 10000 ELSE @]

\* currentFrequency = applyAlgorithmFrequencyScaling(frequency, currentAlgorithm)
RescaledFrequency(d, cf) ==
  RealtimeFrequency(d, cf, (d.sampleRate * FREQ_UNIT * 1000) \div cf)

\* updateRealtimeFrequency()
UpdateRealtimeFrequency(d) ==
  RescaledFrequency(d, ApplyAlgorithmFrequencyScaling(d.frequency, d.currentAlgorithm))

\* triggerDrum() at host time t (milliseconds)
TriggerDrum(d, t) ==
  [ InitializeEnvelopes(
      [d EXCEPT !.triggerActive = TRUE,
                !.triggerStartTime = t,
                !.phase = 0,
                !.baseFrequency = d.frequency,
                !.currentFrequency = d.frequency])
    EXCEPT !.noiseState = [hi |-> 0, lo |-> 1] ]

\* ------------------------------------------------------------------------
\* AlgorithmBank: each generator maps the engine state d and the elapsed
\* time t (milliseconds) to the new engine state and the raw sample
\* ------------------------------------------------------------------------
\* (sin(x) > 0) ? 1.0 : -1.0 for an angle in 1/SCALE of a turn
Square(a) == IF SinTurn(a) > 0 THEN SCALE ELSE -SCALE

\* the fractional part of f * t turns, in 1/SCALE of a turn, for f in
\* 1/FREQ_UNIT Hz and t in milliseconds (f * t itself may leave 32 bits)
TurnOf(f, t) == ((f % SCALE) * (t % SCALE)) % SCALE

\* generateBassDrum(timeElapsed)
GenerateBassDrum(d, t) ==
  LET bassImpulse == IF t < 2 THEN SCALE - ((t * SCALE) \div 2) ELSE 0
      cutoffEnv   == ExpDecay(8000, t)
      cutoff      == d.envFrequency + Mul(d.envFrequency * 3, cutoffEnv)
      resonance   == 8 * SCALE + d.algorithmParam * 120
      r == ProcessResonantFilter(
             UpdateResonantFilter([d EXCEPT !.bassImpulse = bassImpulse],
                                  cutoff, resonance),
             bassImpulse)
  IN  [ d |-> r.d, v |-> Mul(8000, Mul(d.envAmplitude, r.v)) ]

\* generateZapSound(timeElapsed)
GenerateZapSound(d, t) ==
  LET pitchEnv        == ExpDecay(20000, t)
      startMultiplier == 8 * SCALE + d.algorithmParam * 120
      zapFreq  == d.currentFrequency
                  + Mul(d.currentFrequency, Mul(startMultiplier, pitchEnv))
      sawtooth == 2 * TurnOf(zapFreq, t) - SCALE
      sample0  == Mul(Mul(sawtooth, d.envAmplitude), 5000)
      n        == IF t < 50 THEN GenerateWhiteNoise(d) ELSE [ d |-> d, v |-> 0 ]
      sample1  == IF t < 50
                  THEN sample0 + Mul(Mul(n.v, SCALE - ((t * SCALE) \div 50)), 3000)
                  ELSE sample0
      sample2  == IF d.algorithmParam > 100
                  THEN sample1
                       + Mul(Mul(SinTurn(TurnOf(2 * zapFreq, t)), d.envAmplitude),
                             d.algorithmParam * 4)
                  ELSE sample1
  IN  [ d |-> n.d, v |-> Mul(sample2, 7000) ]

\* generateSnareDrum(timeElapsed)
GenerateSnareDrum(d, t) ==
  LET pitchEnv == ExpDecay(25000, t)
      toneFreq == d.envFrequency + Mul(2 * d.envFrequency, pitchEnv)
      tone     == Mul(SinTurn(TurnOf(toneFreq, t)), d.snareToneAmp)
      n        == GenerateWhiteNoise(d)
      noise    == Mul(d.snareNoiseAmp, n.v)
      f == ProcessBandpassFilter(
             SetBandpassFilter(n.d, 800 * FREQ_UNIT + d.algorithmParam * 12, 2 * SCALE),
             noise)
  IN  [ d |-> f.d, v |-> Mul(7000, Mul(6000, tone) + Mul(4000, f.v)) ]

\* generateHiHat(timeElapsed)
GenerateHiHat(d, t) ==
  LET square1   == Square(TurnOf((d.envFrequency * 21) \div 10, t))
      square2   == Square(TurnOf((d.envFrequency * 33) \div 10, t))
      square3   == Square(TurnOf((d.envFrequency * 47) \div 10, t))
      square4   == Square(TurnOf((d.envFrequency * 61) \div 10, t))
      squareSum == (square1 + Mul(square2, 8000) + Mul(square3, 6000)
                    + Mul(square4, 4000)) \div 4
      n         == GenerateWhiteNoise(d)
      rawSignal == squareSum + Mul(n.v, 8000)
      f == ProcessBandpassFilter(
             SetBandpassFilter(n.d, 10000 * FREQ_UNIT, 3 * SCALE), rawSignal)
  IN  [ d |-> f.d, v |-> Mul(15000, Mul(d.hihatEnvelope, f.v)) ]

\* a Karplus-Strong generator that stores the advanced read index without
\* wrapping it
GenerateKarplusStrongUnwrapped(d, t) ==
  LET output         == d.karplusBuffer[d.karplusIndex + 1]
      nextIndex      == (d.karplusIndex + 1) % KARPLUS_BUFFER_SIZE
      filteredSample == (d.karplusBuffer[d.karplusIndex + 1]
                         + d.karplusBuffer[nextIndex + 1]) \div 2
  IN  [ d |-> [d EXCEPT !.karplusBuffer[d.karplusIndex + 1] =
                           Mul(filteredSample, d.karplusDamping),
                        !.karplusIndex = d.karplusIndex + 1],
        v |-> Mul(output, d.envAmplitude) ]

\* generateKarplusStrong(timeElapsed)
GenerateKarplusStrong(d, t) ==
  LET output         == d.karplusBuffer[d.karplusIndex + 1]
      nextIndex      == (d.karplusIndex + 1) % KARPLUS_BUFFER_SIZE
      filteredSample == (d.karplusBuffer[d.karplusIndex + 1]
                         + d.karplusBuffer[nextIndex + 1]) \div 2
  IN  [ d |-> [d EXCEPT !.karplusBuffer[d.karplusIndex + 1] =
                           Mul(filteredSample, d.karplusDamping),
                        !.karplusIndex = nextIndex],
        v |-> Mul(output, d.envAmplitude) ]

\* the phase step 2 * PI * f / sampleRate and the single wrap of a phase
\* accumulator, in 1/SCALE of a turn
AdvancePhase(phase, f, sampleRate) ==
  LET p == phase + OmegaTurn(f, sampleRate)
  IN  IF p >= SCALE THEN p - SCALE ELSE p

\* generateModalSynthesis(timeElapsed)
GenerateModalSynthesis(d, t) ==
  LET modeOutput(i) == Mul(Mul(SinTurn(d.modes[i].phase), d.modes[i].amplitude),
                           ExpDecay(d.modes[i].decay, t))
      output == modeOutput(1) + modeOutput(2) + modeOutput(3) + modeOutput(4)
  IN  [ d |-> [d EXCEPT !.modes =
                  [ i \in 1..NUM_MODES |->
                      [d.modes[i] EXCEPT !.phase =
                          AdvancePhase(d.modes[i].phase, d.modes[i].frequency,
                                       d.sampleRate)] ]],
        v |-> Mul(2500, Mul(d.envAmplitude, output)) ]

\* generateClap(timeElapsed)
GenerateClap(d, t) ==
  LET n == GenerateWhiteNoise(d)
      f == ProcessBandpassFilter(
             SetBandpassFilter(n.d, 1000 * FREQ_UNIT, 3 * SCALE), Mul(12000, n.v))
      pulseComponent  == Mul(d.clapPulseEnv, f.v)
      reverbComponent == Mul(3000, Mul(d.clapReverbEnv, f.v))
  IN  [ d |-> f.d, v |-> Mul(18000, pulseComponent + reverbComponent) ]

\* cowbellFreqs, in 1/FREQ_UNIT Hz
cowbellFreqs == << 5550, 8350, 13700, 19400 >>

\* generateCowbell(timeElapsed)
GenerateCowbell(d, t) ==
  LET phases == [ i \in 1..4 |->
                    AdvancePhase(d.cowbellPhases[i], cowbellFreqs[i], d.sampleRate) ]
      pulse(i) == Square(phases[i]) \div i
      output   == Mul((pulse(1) + pulse(2) + pulse(3) + pulse(4)) \div 4, d.envAmplitude)
      f == ProcessBandpassFilter(
             SetBandpassFilter([d EXCEPT !.cowbellPhases = phases],
                               2000 * FREQ_UNIT + d.algorithmParam * 30, 4 * SCALE),
             output)
  IN  [ d |-> f.d, v |-> Mul(8000, f.v) ]

\* the switch of generateDrumSample(): the generator of the selected algorithm
Generate(d, t) ==
  CASE d.currentAlgorithm = ALGO_BASS    -> GenerateBassDrum(d, t)
    [] d.currentAlgorithm = ALGO_ZAP     -> GenerateZapSound(d, t)
    [] d.currentAlgorithm = ALGO_SNARE   -> GenerateSnareDrum(d, t)
    [] d.currentAlgorithm = ALGO_HIHAT   -> GenerateHiHat(d, t)
    [] d.currentAlgorithm = ALGO_KARPLUS -> GenerateKarplusStrong(d, t)
    [] d.currentAlgorithm = ALGO_MODAL   -> GenerateModalSynthesis(d, t)
    [] d.currentAlgorithm = ALGO_CLAP    -> GenerateClap(d, t)
    [] d.currentAlgorithm = ALGO_COWBELL -> GenerateCowbell(d, t)
    [] OTHER                             -> GenerateBassDrum(d, t)

\* ------------------------------------------------------------------------
\* OutputStage
\* ------------------------------------------------------------------------
\* the per-algorithm gain switch of TockusDSP::generateDrumSample, in 1/SCALE
AlgorithmGain(algorithm) ==
  CASE algorithm = ALGO_BASS    -> 10000
    [] algorithm = ALGO_SNARE   -> 4000
    [] algorithm = ALGO_HIHAT   -> 8000
    [] algorithm = ALGO_KARPLUS -> 5000
    [] algorithm = ALGO_MODAL   -> 3000
    [] algorithm = ALGO_ZAP     -> 3000
    [] algorithm = ALGO_CLAP    -> 7000
    [] algorithm = ALGO_COWBELL -> 8000
    [] OTHER                    -> 10000

\* a saturation stage that lets the boosted sample through unchanged
SoftSaturateOmitted(boostedSample) == boostedSample

\* soft saturation: beyond +-0.8 the excess is folded through tanh
SoftSaturate(boostedSample) ==
  IF boostedSample > 8000
  THEN 8000 + Mul(2000, Tanh((boostedSample - 8000) * 5))
  ELSE IF boostedSample < -8000
  THEN -8000 + Mul(2000, Tanh((boostedSample + 8000) * 5))
  ELSE boostedSample

\* the anti-aliasing lowpass: LOWPASS_ALPHA * sample + (1 - LOWPASS_ALPHA) * lastSample
AntiAlias(sample, lastSample) ==
  Mul(LOWPASS_ALPHA, sample) + Mul(SCALE - LOWPASS_ALPHA, lastSample)

\* the end of TockusDSP::generateDrumSample: lastSample is stored, the gains
\* and the saturation give the value returned
BoostAndSaturate(gd, sample, algorithmGain) ==
  [ d |-> [gd EXCEPT !.lastSample = sample],
    v |-> SoftSaturate(Mul(algorithmGain, Mul(MASTER_GAIN, sample))) ]

\* the output stage applied to what the generator returned (g.d, g.v)
OutputStage(g, lastSample, algorithmGain) ==
  BoostAndSaturate(g.d, AntiAlias(g.v, lastSample), algorithmGain)

\* TockusDSP::generateDrumSample(timeElapsed): the float sample in 1/SCALE
GenerateDrumSample(d, t) ==
  OutputStage(Generate(UpdateEnvelopes(d, t), t), d.lastSample,
              AlgorithmGain(d.currentAlgorithm))

\* (int16_t) of a value already truncated to an integer
ToInt16(x) == ((x - INT16_MIN) % 65536) + INT16_MIN

\* return (int16_t)(boostedSample * amplitude): v is the int16, f the float
FwConvert(gd, boostedSample) ==
  [ d |-> gd, v |-> ToInt16(TruncDiv(boostedSample * amplitude, SCALE)),
    f |-> boostedSample ]

\* the end of the firmware's generateDrumSample: lastSample is stored, the
\* master gain and the saturation applied (no per-algorithm gain)
FwBoostAndSaturate(gd, sample) ==
  FwConvert([gd EXCEPT !.lastSample = sample], SoftSaturate(Mul(MASTER_GAIN, sample)))

FwOutputStage(g, lastSample) == FwBoostAndSaturate(g.d, AntiAlias(g.v, lastSample))

\* the firmware's generateDrumSample(timeElapsed)
FwGenerateDrumSample(d, t) ==
  FwOutputStage(Generate(UpdateEnvelopes(d, t), t), d.lastSample)

\* ------------------------------------------------------------------------
\* VoiceController: the desktop engine's public calls
\* ------------------------------------------------------------------------
\* the TockusDSP() constructor
NewTockusDSP ==
  LET z == [ x1 |-> 0, x2 |-> 0, y1 |-> 0, y2 |-> 0,
             a0 |-> 0, a1 |-> 0, a2 |-> 0, b1 |-> 0, b2 |-> 0 ]
      d0 == [ sampleRate       |-> 44100,
              gateState        |-> FALSE,
              lastGateState    |-> FALSE,
              triggerActive    |-> FALSE,
              triggerStartTime |-> 0,
              currentAlgorithm |-> ALGO_BASS,
              frequency        |-> 60 * FREQ_UNIT,
              currentFrequency |-> 60 * FREQ_UNIT,
              baseFrequency    |-> 60 * FREQ_UNIT,
              algorithmParam   |-> 500,
              envAmplitude     |-> 0,
              envFrequency     |-> 0,
              envDecayRate     |-> 0,
              phase            |-> 0,
              sampleCount      |-> 0,
              noiseState       |-> [hi |-> 0, lo |-> 1],
              snareNoiseAmp    |-> 0,
              snareToneAmp     |-> 0,
              hihatEnvelope    |-> 0,
              clapPulseEnv     |-> 0,
              clapReverbEnv    |-> 0,
              bassFilterEnv    |-> 0,
              bassImpulse      |-> 0,
              cowbellPhases    |-> [i \in 1..4 |-> 0],
              bpf              |-> z,
              bassFilter       |-> [ x1 |-> 0, x2 |-> 0, y1 |-> 0, y2 |-> 0,
                                     cutoff |-> 0, resonance |-> 0,
                                     a0 |-> 0, a1 |-> 0, a2 |-> 0, b1 |-> 0, b2 |-> 0 ],
              karplusBuffer    |-> [i \in 1..KARPLUS_BUFFER_SIZE |-> 0],
              karplusIndex     |-> 0,
              karplusDamping   |-> 9900,
              modes            |-> [i \in 1..NUM_MODES |->
                                      [ frequency |-> 0, amplitude |-> 0,
                                        decay |-> 0, phase |-> 0 ]],
              lastSample       |-> 0 ]
  IN  InitializeModalSynthesis(
        InitializeKarplusStrong(
          InitializeResonantFilter(
            InitializeBandpassFilter(d0))))

\* a level-sensitive gate test
GateLevel(gate, lastGateState) == gate

\* the gate test of setParameters / updateParameters
GateRisingEdge(gate, lastGateState) == gate /\ ~lastGateState

\* an algorithm index taken from the map() result without the constrain
SelectAlgorithmUnconstrained(cv1Val) ==
  ToUint8(TruncDiv((cv1Val - CV1_MIN) * (NUM_ALGORITHMS - 1), CV1_MAX - CV1_MIN))

\* CV1 to the algorithm index: TockusDSP::setParameters lines 91-92
SelectAlgorithm(cv1Val) ==
  Clamp(ToUint8(TruncDiv((cv1Val - CV1_MIN) * (NUM_ALGORITHMS - 1), CV1_MAX - CV1_MIN)),
        0, NUM_ALGORITHMS - 1)

\* an algorithm parameter taken without the clamp to [0, 1]
SelectParamUnclamped(cv2Val) == TruncDiv((cv2Val - CV2_MIN) * 1000, CV2_MAX - CV2_MIN)

\* CV2 to the algorithm parameter in per-mille: TockusDSP::setParameters lines 96-97
SelectParam(cv2Val) ==
  Clamp(TruncDiv((cv2Val - CV2_MIN) * 1000, CV2_MAX - CV2_MIN), 0, 1000)

\* the unit of the normalised float arguments of setParameters: 1/NORM_UNIT
NORM_UNIT == 100000

\* setParameters(pitch, cv1, cv2, gate) at host time t; pitch, cv1, cv2 are
\* the normalised GUI values in 1/NORM_UNIT
\* the assignments of setParameters after the gate handling, for the ADC
\* counts pitchCV, cv1Val, cv2Val
Controls(d1, gate, pitchCV, cv1Val, cv2Val) ==
  [d1 EXCEPT !.lastGateState = gate,
             !.gateState = gate,
             !.frequency = ApplyAlgorithmFrequencyScaling(MapFrequency(pitchCV, 1650),
                                                          d1.currentAlgorithm),
             !.currentAlgorithm = SelectAlgorithm(cv1Val),
             !.algorithmParam = SelectParam(cv2Val)]

SetParametersOp(d, t, pitch, cv1, cv2, gate) ==
  Controls(IF GateRisingEdge(gate, d.lastGateState) THEN TriggerDrum(d, t) ELSE d,
           gate,
           ToUint16(TruncDiv(pitch * (PITCH_CV_MAX - PITCH_CV_MIN)
                             + NORM_UNIT * PITCH_CV_MIN, NORM_UNIT)),
           ToUint16(TruncDiv(cv1 * (CV1_MAX - CV1_MIN) + NORM_UNIT * CV1_MIN, NORM_UNIT)),
           ToUint16(TruncDiv(cv2 * (CV2_MAX - CV2_MIN) + NORM_UNIT * CV2_MIN, NORM_UNIT)))

\* MainWindow::updateParameters(): the slider counts normalised to 0..1 and
\* handed to setParameters with the gate button's state
UpdateParametersOp(d, t, g) ==
  SetParametersOp(d, t,
    ((g.currentPitchCV - PITCH_CV_MIN) * NORM_UNIT) \div (PITCH_CV_MAX - PITCH_CV_MIN),
    ((g.currentCV1 - CV1_MIN) * NORM_UNIT) \div (CV1_MAX - CV1_MIN),
    ((g.currentCV2 - CV2_MIN) * NORM_UNIT) \div (CV2_MAX - CV2_MIN),
    g.gateState)

\* a sample tick that runs the generator whatever the voice's state
VoiceAlways(d) == TRUE

\* the test that lets a sample tick run the generator: if (triggerActive)
VoiceActive(d) == d.triggerActive

\* an envelope test that ends a voice only at amplitude zero
EnvelopeDecayedToZero(envAmplitude) == envAmplitude <= 0

\* the envelope test that ends a voice
EnvelopeDecayed(envAmplitude) == envAmplitude < ENV_THRESHOLD

\* an elapsed time counted in samples: sampleCount / sampleRate, in milliseconds
TimeElapsedBySamples(d, t) == (d.sampleCount * 1000) \div d.sampleRate

\* the elapsed time handed to generateDrumSample: (getTimeMs() - triggerStartTime)
\* milliseconds, for the host clock t
TimeElapsed(d, t) == t - d.triggerStartTime

\* processNextSample() at host time t: the new state, the sample returned
\* the end of a sample tick that started Active (active) or Idle: the
\* envelope test, sampleCount++, and the value returned
EndTick(active, g) ==
  [ d |-> [g.d EXCEPT !.triggerActive = IF active /\ EnvelopeDecayed(g.d.envAmplitude)
                                        THEN FALSE ELSE @,
                      !.sampleCount = @ + 1],
    v |-> g.v ]

\* the sample part of processNextSample() on the state d1 the frequency
\* update left
SampleTick(d1, t) ==
  EndTick(VoiceActive(d1),
          IF VoiceActive(d1) THEN GenerateDrumSample(d1, TimeElapsed(d1, t))
          ELSE [ d |-> d1, v |-> 0 ])

\* processNextSample() at host time t: the new state, the sample returned
ProcessNextSampleOp(d, t) ==
  SampleTick(IF d.sampleCount % 4 = 0 /\ d.triggerActive
             THEN UpdateRealtimeFrequency(d) ELSE d, t)

\* ------------------------------------------------------------------------
\* ParameterConditioner: the firmware's ADC filters.  adcFilters[i].filtered
\* is kept in 1/ADC_UNIT of a count, the alphas in 1/SCALE
\* ------------------------------------------------------------------------
\* FILTER_ALPHA_PITCH, FILTER_ALPHA_KNOB, FILTER_ALPHA_CV1, FILTER_ALPHA_CV2
alphas == [ i \in 0..3 |-> IF i = 2 THEN 3000 ELSE 6000 ]

\* initializeADCFilters()
InitializeADCFilters ==
  [ i \in 0..3 |->
      [ filtered |-> 0, alpha |-> alphas[i], baseAlpha |-> alphas[i],
        lastRaw |-> 0, deadband |-> 1, lastUpdate |-> 0 ] ]

\* a deadband that uses the pitch channel's threshold on every channel
DeadbandThresholdOfPitch(i) == 1

\* uint16_t threshold = (i == 0) ? 1 : 2
DeadbandThreshold(i) == IF i = 0 THEN 1 ELSE 2

\* a rate limit that lets every sample through
RateLimitedNever(f, currentTime) == FALSE

\* if (currentTime - adcFilters[i].lastUpdate < RATE_LIMIT_MS) continue
RateLimited(f, currentTime) == currentTime - f.lastUpdate < RATE_LIMIT_MS

\* one iteration of the loop of filterADCValues(): channel i with filter f
FilterChannel(f, i, raw, currentTime, currentAlgorithm) ==
  LET changeMagnitude == Abs(raw - f.lastRaw)
      baseAlpha == IF i = 3 /\ currentAlgorithm \in {ALGO_SNARE, ALGO_HIHAT, ALGO_CLAP}
                   THEN 1000 ELSE f.baseAlpha
  IN  IF RateLimited(f, currentTime) THEN f
      ELSE IF changeMagnitude >= DeadbandThreshold(i)
      THEN [f EXCEPT !.filtered = IF f.filtered = 0 THEN raw * ADC_UNIT
                                  ELSE Mul(baseAlpha, raw * ADC_UNIT)
                                       + Mul(SCALE - baseAlpha, f.filtered),
                     !.lastRaw = raw,
                     !.lastUpdate = currentTime]
      ELSE f

\* filterADCValues(rawValues) at millis() = currentTime
FilterADCValuesOp(a, currentTime, rawValues, currentAlgorithm) ==
  [ i \in 0..3 |-> FilterChannel(a[i], i, rawValues[i], currentTime, currentAlgorithm) ]

\* ------------------------------------------------------------------------
\* The firmware: updateParameters() and loop()
\* ------------------------------------------------------------------------
\* updateParameters() at millis() = t, for the four analogRead values and the
\* digitalRead of the gate: the new globals and the new ADC filters
\* the assignments of updateParameters() after the gate handling, for the
\* filtered counts pitchCV, pitchKnob, cv1, cv2
FwControls(d1, a1, gate, pitchCV, pitchKnob, cv1, cv2) ==
  [ d |-> [d1 EXCEPT
             !.gateState = gate,
             !.lastGateState = gate,
             !.frequency =
                ApplyAlgorithmFrequencyScaling(
                  MapFrequency(pitchCV,
                               Clamp(ArduinoMap(pitchKnob, PITCH_KNOB_MIN, PITCH_KNOB_MAX,
                                                0, 3300), 0, 3300)),
                  d1.currentAlgorithm),
             !.currentAlgorithm = SelectAlgorithm(cv1),
             !.algorithmParam = SelectParam(cv2)],
    a |-> a1 ]

\* updateParameters() once filterADCValues has left the filters a1
FwFiltered(d, a1, t, gate) ==
  FwControls(IF GateRisingEdge(gate, d.lastGateState) THEN TriggerDrum(d, t) ELSE d,
             a1, gate,
             ToUint16(a1[0].filtered \div ADC_UNIT),
             ToUint16(a1[1].filtered \div ADC_UNIT),
             ToUint16(a1[2].filtered \div ADC_UNIT),
             ToUint16(a1[3].filtered \div ADC_UNIT))

FwUpdateParametersOp(d, a, t, rawValues, gate) ==
  FwFiltered(d, FilterADCValuesOp(a, t, rawValues, d.currentAlgorithm), t, gate)

\* loop() at millis() = t: the new globals and ADC filters, the int16 sample
\* written to I2S (v) and the float it was converted from (f)
\* the end of a loop() iteration that started its sample part Active
\* (active) or Idle: the envelope test, the I2S write, sampleCount++
FwEndLoop(active, g, a1) ==
  [ d |-> [g.d EXCEPT !.triggerActive = IF active /\ EnvelopeDecayed(g.d.envAmplitude)
                                        THEN FALSE ELSE @,
                      !.sampleCount = @ + 1],
    a |-> a1, v |-> g.v, f |-> g.f ]

\* the sample part of loop() on the globals d1 and the ADC filters a1
FwSampleTick(d1, a1, t) ==
  FwEndLoop(VoiceActive(d1),
            IF VoiceActive(d1) THEN FwGenerateDrumSample(d1, TimeElapsed(d1, t))
            ELSE [ d |-> d1, v |-> 0, f |-> 0 ],
            a1)

\* the first part of loop() in an iteration with sampleCount % 4 == 0, given
\* what updateParameters() left (u.d, u.a)
FwControlTick(u, t) ==
  FwSampleTick(IF u.d.triggerActive THEN UpdateRealtimeFrequency(u.d) ELSE u.d, u.a, t)

FwLoopOp(d, a, t, rawValues, gate) ==
  IF d.sampleCount % 4 = 0
  THEN FwControlTick(FwUpdateParametersOp(d, a, t, rawValues, gate), t)
  ELSE FwSampleTick(d, a, t)

\* ------------------------------------------------------------------------
\* Bounds of the model and the inputs explored
\* ------------------------------------------------------------------------
\* samples the desktop engine produces in one behaviour
MaxSamples == 2

\* control updates of the desktop GUI in one behaviour
MaxUpdates == 3

\* iterations of the firmware's loop() in one behaviour
MaxLoops == 6

\* calls of filterADCValues in one behaviour of SpecADC
MaxADCUpdates == 4

\* the instants (milliseconds) at which the host clock is observed
ClockPoints == {0, 1, 16, 256}

\* positions of the pitch slider (ADC counts): 27.5 Hz and 880 Hz before scaling
PitchCVValues == {2048, 0}

\* positions of the CV1 slider (ADC counts), one for each algorithm
CV1Values == {100, 400, 700, 1000, 1300, 1600, 1900, 2000}

\* positions of the CV2 slider (ADC counts): parameter 0.498 and 1
CV2Values == {1000, 2000}

\* what the firmware's analogRead returns for << PITCH_CV, PITCH_KNOB, CV1, CV2 >>
FwRawInputs ==
  { [ i \in 0..3 |-> IF i = 0 THEN 0 ELSE IF i = 1 THEN 2005
                     ELSE IF i = 2 THEN cv1 ELSE cv2 ] :
      cv1 \in CV1Values, cv2 \in CV2Values }

\* the raw values fed to the ADC conditioner in SpecADC, the same on all channels
ADCRawValues == {0, 1, 2, 3, 400, 1000, 2000, 4095}

\* the base frequencies (1/FREQ_UNIT Hz) handed to the frequency scaling in
\* SpecScale: 0 Hz, 20000 Hz and values around the ranges' ends
BaseFreqInputs ==
  {0, 1, 275, 790, 800, 1400, 1990, 2000, 4000, 5000, 6000, 8000, 15000, 20000,
   80000, 200000}

\* ------------------------------------------------------------------------
\* State
\* ------------------------------------------------------------------------
VARIABLES
  platform, \* "simulator": MainWindow drives TockusDSP; "firmware": loop()
  dsp,      \* the TockusDSP object / the firmware's globals
  adc,      \* the firmware's adcFilters[4]
  gui,      \* MainWindow: the gate button and the slider positions
  now,      \* the millisecond clock: getTimeMs() / millis()
  ret,      \* the float sample of the last tick, in 1/SCALE
  i2s,      \* the int16 sample the firmware's last loop() wrote
  updates,  \* control updates made so far
  last      \* the last call: its name and what it did

vars == << platform, dsp, adc, gui, now, ret, i2s, updates, last >>

\* MainWindow's member initialisers: the gate button and the slider positions
NewMainWindow ==
  [ gateState |-> FALSE, currentPitchCV |-> 2048, currentCV1 |-> 1000,
    currentCV2 |-> 1000 ]

\* the CV1 slider position onAlgorithmChanged(index) sets:
\* CV1_MIN + (int)((float)index / (NUM_ALGORITHMS - 1) * (CV1_MAX - CV1_MIN))
AlgorithmSliderValue(index) ==
  CV1_MIN + (index * (CV1_MAX - CV1_MIN)) \div (NUM_ALGORITHMS - 1)

\* MainWindow::onAlgorithmChanged(index) at host time t, for the engine d and
\* the sliders g: cv1Slider->setValue() runs onCV1Changed, and with it
\* updateParameters(), when it changes the slider's value
OnAlgorithmChangedOp(d, g, index, t) ==
  IF index >= 0 /\ index < NUM_ALGORITHMS /\ AlgorithmSliderValue(index) # g.currentCV1
  THEN [ d |-> UpdateParametersOp(d, t, [g EXCEPT !.currentCV1 = AlgorithmSliderValue(index)]),
         g |-> [g EXCEPT !.currentCV1 = AlgorithmSliderValue(index)],
         index |-> index ]
  ELSE [ d |-> d, g |-> g, index |-> index ]

\* MainWindow::updateDisplay() with the combo box at index: a combo box that
\* does not show the engine's algorithm is set to it, which runs
\* onAlgorithmChanged
UpdateDisplayOp(d, g, index, t) ==
  IF index # d.currentAlgorithm
  THEN OnAlgorithmChangedOp(d, g, d.currentAlgorithm, t)
  ELSE [ d |-> d, g |-> g, index |-> index ]

\* the end of MainWindow's constructor: updateParameters() with the initial
\* slider positions, then updateDisplay() with the combo box at index 0
MainWindowConstructed ==
  UpdateDisplayOp(UpdateParametersOp(NewTockusDSP, 0, NewMainWindow), NewMainWindow, 0, 0)

\* what is recorded about a call: name, whether it ran triggerDrum(), whether
\* the voice was Active when it started, the gate level of the latest control
\* update, the calls made so far and the sample ticks since the latest trigger
NoCall ==
  [ name |-> "init", triggered |-> FALSE, wasActive |-> FALSE, gate |-> FALSE,
    calls |-> 0, ticks |-> 0 ]

\* the desktop program after MainWindow's constructor, or the firmware after
\* setup() (which initialises the same engine state as TockusDSP's constructor)
Init ==
  /\ platform \in {"simulator", "firmware"}
  /\ gui = IF platform = "simulator" THEN MainWindowConstructed.g ELSE NewMainWindow
  /\ adc = InitializeADCFilters
  /\ dsp = IF platform = "simulator"
           THEN MainWindowConstructed.d
           ELSE NewTockusDSP
  /\ now = 0
  /\ ret = 0
  /\ i2s = 0
  /\ updates = 0
  /\ last = NoCall

\* a GUI slot: the control changes to g, then updateParameters()
GuiUpdate(g) ==
  /\ platform = "simulator"
  /\ updates < MaxUpdates
  /\ gui' = g
  /\ dsp' = UpdateParametersOp(dsp, now, g)
  /\ last' = [ name |-> "setParameters",
               triggered |-> GateRisingEdge(g.gateState, dsp.lastGateState),
               wasActive |-> dsp.triggerActive,
               gate |-> g.gateState,
               calls |-> last.calls + 1,
               ticks |-> IF GateRisingEdge(g.gateState, dsp.lastGateState)
                         THEN 0 ELSE last.ticks ]
  /\ updates' = updates + 1
  /\ UNCHANGED << platform, adc, now, ret, i2s >>

OnPitchCVChanged ==
  \E value \in PitchCVValues \ {gui.currentPitchCV} :
    GuiUpdate([gui EXCEPT !.currentPitchCV = value])

OnCV1Changed ==
  \E value \in CV1Values \ {gui.currentCV1} :
    GuiUpdate([gui EXCEPT !.currentCV1 = value])

OnCV2Changed ==
  \E value \in CV2Values \ {gui.currentCV2} :
    GuiUpdate([gui EXCEPT !.currentCV2 = value])

OnGatePressed ==
  /\ ~gui.gateState
  /\ GuiUpdate([gui EXCEPT !.gateState = TRUE])

OnGateReleased ==
  /\ gui.gateState
  /\ GuiUpdate([gui EXCEPT !.gateState = FALSE])

\* the audio callback calls processNextSample
ProcessNextSample ==
  /\ platform = "simulator"
  /\ dsp.sampleCount < MaxSamples
  /\ \E r \in {ProcessNextSampleOp(dsp, now)} :
       /\ dsp' = r.d
       /\ ret' = r.v
  /\ last' = [last EXCEPT !.name = "processNextSample",
                          !.triggered = FALSE,
                          !.wasActive = dsp.triggerActive,
                          !.calls = @ + 1,
                          !.ticks = @ + 1]
  /\ UNCHANGED << platform, adc, gui, now, i2s, updates >>

\* one iteration of the firmware's loop(); the pins are read only in the
\* iterations that run updateParameters()
FwLoop ==
  /\ platform = "firmware"
  /\ dsp.sampleCount < MaxLoops
  /\ \E rawValues \in (IF dsp.sampleCount % 4 = 0 THEN FwRawInputs
                       ELSE {[i \in 0..3 |-> 0]}),
        gate \in (IF dsp.sampleCount % 4 = 0 THEN BOOLEAN ELSE {last.gate}) :
       \E r \in {FwLoopOp(dsp, adc, now, rawValues, gate)},
          tr \in {dsp.sampleCount % 4 = 0 /\ GateRisingEdge(gate, dsp.lastGateState)} :
         /\ dsp' = r.d
         /\ adc' = r.a
         /\ i2s' = r.v
         /\ ret' = r.f
         /\ updates' = IF dsp.sampleCount % 4 = 0 THEN updates + 1 ELSE updates
         /\ last' = [ name |-> "loop",
                      triggered |-> tr,
                      wasActive |-> dsp.triggerActive,
                      gate |-> gate,
                      calls |-> last.calls + 1,
                      ticks |-> IF tr THEN 1 ELSE last.ticks + 1 ]
  /\ UNCHANGED << platform, gui, now >>

\* the clock moves on to a later observation point
ClockAdvance ==
  /\ \E t \in ClockPoints : t > now /\ now' = t
  /\ UNCHANGED << platform, dsp, adc, gui, ret, i2s, updates, last >>

Next ==
  \/ OnPitchCVChanged
  \/ OnCV1Changed
  \/ OnCV2Changed
  \/ OnGatePressed
  \/ OnGateReleased
  \/ ProcessNextSample
  \/ FwLoop
  \/ ClockAdvance

Spec == Init /\ [][Next]_vars

\* ------------------------------------------------------------------------
\* Properties of the voice (Spec)
\* ------------------------------------------------------------------------
\* a step that is an engine call
CallStep == last'.calls # last.calls

\* a step that is a sample tick: processNextSample(), or an iteration of loop()
TickStep == CallStep /\ last'.name \in {"processNextSample", "loop"}

\* a step that is a control update: setParameters(), or an iteration of
\* loop() that runs updateParameters()
ControlStep == CallStep /\ updates' # updates

\* a control update that sees the gate high after the previous one saw it low
RisingEdgeStep == ControlStep /\ last'.gate /\ ~last.gate

\* the latest call was a sample tick
Ticked == last.name \in {"processNextSample", "loop"}

\* C1: the finalized sample is within [-1.0, 1.0] in every reachable state,
\* and the int16 the firmware writes is the sample times 32767 itself: the
\* conversion never wraps
C1_OutputBounded ==
  /\ Abs(ret) <= SCALE
  /\ platform = "firmware" => i2s = TruncDiv(ret * amplitude, SCALE)

\* a firmware iteration whose sample went through the saturation
C1_Witness ==
  /\ platform = "firmware"
  /\ last.name = "loop"
  /\ Abs(ret) > 8000
  /\ i2s # 0

C2_EnvelopeStep ==
  /\ dsp.envAmplitude <= SCALE
  /\ dsp'.envAmplitude <= SCALE
  /\ RisingEdgeStep => dsp'.envAmplitude = SCALE
  /\ ~RisingEdgeStep => dsp'.envAmplitude <= dsp.envAmplitude

\* C2: envAmplitude never exceeds 1.0, a gate rising edge sets it to exactly
\* 1.0, and every other step (sample ticks and control updates that change
\* the algorithm or the parameter included) leaves it equal or lower
C2_Envelope == [][C2_EnvelopeStep]_vars

\* an Active tick has lowered the envelope after the controls were changed
\* away from the ones the trigger used
C2_Witness ==
  /\ Ticked
  /\ last.wasActive
  /\ dsp.envAmplitude < SCALE
  /\ dsp.envAmplitude > 0
  /\ last.ticks >= 2
  /\ DecayRateOf(dsp.currentAlgorithm, dsp.algorithmParam) # dsp.envDecayRate

C3_TriggerStep ==
  ControlStep =>
    /\ last'.triggered <=> (last'.gate /\ ~last.gate)
    /\ (last'.gate /\ ~last.gate) =>
         /\ dsp'.triggerActive
         /\ dsp'.envAmplitude = SCALE
         /\ dsp'.triggerStartTime = now
    /\ ~(last'.gate /\ ~last.gate) =>
         /\ dsp'.triggerStartTime = dsp.triggerStartTime
         /\ dsp'.triggerActive => dsp.triggerActive

\* C3: triggerDrum runs in a control update iff the gate is high in it and
\* was low in the previous one (initially low); then the voice is Active with
\* amplitude 1.0 and a new start time, and otherwise the start time stays and
\* an Idle voice stays Idle
C3_EdgeTriggered == [][C3_TriggerStep]_vars

\* a rising edge has restarted a voice that was still Active
C3_Witness ==
  /\ last.triggered
  /\ last.wasActive
  /\ dsp.triggerActive
  /\ dsp.envAmplitude = SCALE
  /\ dsp.triggerStartTime = now
  /\ now > 0

\* exp(-rate * n / sampleRate) in 1/SCALE: the envelope a sample-counted
\* clock would give on the n-th tick after the trigger
SampleClockEnvelope(rateMilli, n, sampleRate) == ExpNeg((rateMilli * n) \div sampleRate)

\* C4 as stated: after the n-th Active tick since the trigger the envelope is
\* exp(-rate * n / sampleRate), whatever the host clock shows
C4_SampleCounted ==
  (Ticked /\ (last.wasActive \/ last.triggered)) =>
    dsp.envAmplitude = SampleClockEnvelope(dsp.envDecayRate, last.ticks, dsp.sampleRate)

C4_TickStep ==
  TickStep =>
    /\ dsp'.sampleCount = dsp.sampleCount + 1
    /\ (last'.wasActive \/ last'.triggered) =>
         dsp'.envAmplitude = ExpDecay(dsp'.envDecayRate, now - dsp'.triggerStartTime)

\* C4 (amended): every sample tick advances sampleCount by exactly one, and
\* the envelope an Active tick computes is exp(-rate * elapsed) for elapsed =
\* the millisecond clock minus the trigger's start time
C4_WallClock == [][C4_TickStep]_vars

\* the first tick after a trigger, made when the clock had moved on: the
\* envelope has already fallen
C4_Witness ==
  /\ Ticked
  /\ last.wasActive
  /\ last.ticks = 1
  /\ now - dsp.triggerStartTime >= 16
  /\ dsp.envAmplitude < SCALE

C5_StateMachineStep ==
  /\ dsp.triggerActive <=> dsp.envAmplitude >= ENV_THRESHOLD
  /\ dsp'.triggerActive <=> dsp'.envAmplitude >= ENV_THRESHOLD
  /\ (~dsp.triggerActive /\ dsp'.triggerActive) => RisingEdgeStep
  /\ (dsp.triggerActive /\ ~dsp'.triggerActive) =>
       TickStep /\ dsp'.envAmplitude < ENV_THRESHOLD

\* C5: between engine calls triggerActive holds iff envAmplitude >= 0.001; it
\* becomes true only in a control update with a rising edge and false only in
\* a sample tick that leaves envAmplitude < 0.001
C5_StateMachine == [][C5_StateMachineStep]_vars

\* a sample tick has ended the voice
C5_Witness ==
  /\ Ticked
  /\ last.wasActive
  /\ ~dsp.triggerActive
  /\ dsp.envAmplitude < ENV_THRESHOLD

\* the globals d with the fields updateParameters() and sampleCount++ assign
\* taken from c
WithControlsOf(d, c) ==
  [d EXCEPT !.sampleCount = c.sampleCount,
            !.gateState = c.gateState,
            !.lastGateState = c.lastGateState,
            !.frequency = c.frequency,
            !.currentAlgorithm = c.currentAlgorithm,
            !.algorithmParam = c.algorithmParam]

C6_IdleTickStep ==
  (TickStep /\ ~dsp.triggerActive /\ ~last'.triggered) =>
    /\ ret' = 0
    /\ i2s' = 0
    /\ dsp'.sampleCount = dsp.sampleCount + 1
    /\ platform = "simulator" => dsp' = [dsp EXCEPT !.sampleCount = @ + 1]
    /\ platform = "firmware" => WithControlsOf(dsp', dsp) = dsp

\* C6: a sample tick of an Idle voice returns 0 and changes nothing of the
\* engine but sampleCount (in the firmware, where the iteration may also run
\* updateParameters(), nothing but sampleCount and the control fields)
C6_IdleTick == [][C6_IdleTickStep]_vars

\* an Idle tick of a voice that had sounded and decayed
C6_Witness ==
  /\ Ticked
  /\ ~last.wasActive
  /\ ~last.triggered
  /\ dsp.envDecayRate > 0
  /\ dsp.triggerStartTime < now
  /\ dsp.envAmplitude < ENV_THRESHOLD
  /\ ret = 0

\* ------------------------------------------------------------------------
\* SpecScale: applyAlgorithmFrequencyScaling on its own.  The initial state
\* holds the arguments, the one action applies the function
\* ------------------------------------------------------------------------
InitScale ==
  /\ platform = "firmware"
  /\ gui = NewMainWindow
  /\ adc = InitializeADCFilters
  /\ dsp = NewTockusDSP
  /\ now = 0
  /\ ret = 0
  /\ i2s = 0
  /\ updates = 0
  /\ last \in { [ name |-> "arguments", baseFreq |-> f, algorithm |-> a, result |-> 0 ] :
                  f \in BaseFreqInputs, a \in 0..(NUM_ALGORITHMS - 1) }

ApplyScaling ==
  /\ last.name = "arguments"
  /\ last' = [last EXCEPT !.name = "applyAlgorithmFrequencyScaling",
                          !.result = ApplyAlgorithmFrequencyScaling(last.baseFreq,
                                                                    last.algorithm)]
  /\ UNCHANGED << platform, dsp, adc, gui, now, ret, i2s, updates >>

NextScale == ApplyScaling

SpecScale == InitScale /\ [][NextScale]_vars

\* the ranges the claim gives, in Hz, for the algorithms 0..7
C7_Ranges ==
  << << 20, 150 >>, << 100, 400 >>, << 200, 2000 >>, << 80, 800 >>,
     << 240, 2400 >>, << 50, 500 >>, << 150, 1500 >>, << 2000, 8000 >> >>

InitADC ==
  /\ platform = "firmware"
  /\ gui = NewMainWindow
  /\ adc = InitializeADCFilters
  /\ dsp \in { [NewTockusDSP EXCEPT !.currentAlgorithm = a] : a \in {ALGO_BASS, ALGO_SNARE} }
  /\ now = 0
  /\ ret = 0
  /\ i2s = 0
  /\ updates = 0
  /\ last = [ name |-> "initializeADCFilters", raw |-> [i \in 0..3 |-> 0],
              passed |-> [i \in 0..3 |-> FALSE], repeats |-> 0, unchanged |-> FALSE ]

\* what is recorded about a call of filterADCValues: the raw values, the
\* channels that passed the rate limit, how many calls in a row (this one
\* included) fed these same raw values with every channel past the rate
\* limit, and whether the call left the filters as they were
FilterCall(rawValues, a1) ==
  [ name |-> "filterADCValues",
    raw |-> rawValues,
    passed |-> [ i \in 0..3 |-> now - adc[i].lastUpdate >= RATE_LIMIT_MS ],
    repeats |-> IF \E i \in 0..3 : now - adc[i].lastUpdate < RATE_LIMIT_MS THEN 0
                ELSE IF last.name = "filterADCValues" /\ last.raw = rawValues
                THEN last.repeats + 1 ELSE 1,
    unchanged |-> a1 = adc ]

FilterADCValues ==
  /\ updates < MaxADCUpdates
  /\ \E v \in ADCRawValues :
       \E a1 \in {FilterADCValuesOp(adc, now, [i \in 0..3 |-> v], dsp.currentAlgorithm)} :
         /\ adc' = a1
         /\ last' = FilterCall([i \in 0..3 |-> v], a1)
  /\ updates' = updates + 1
  /\ UNCHANGED << platform, dsp, gui, now, ret, i2s >>

NextADC ==
  \/ FilterADCValues
  \/ ClockAdvance

SpecADC == InitADC /\ [][NextADC]_vars

\* C8 as stated: once the same raw values, fed again at a time that passes
\* the rate limit, leave the conditioner as it was (so that every further
\* identical input does too), each smoothed value equals its raw value
C8_ConstantInputConverges ==
  (last.name = "filterADCValues" /\ last.repeats >= 2 /\ last.unchanged) =>
    \A i \in 0..3 : adc[i].filtered = last.raw[i] * ADC_UNIT

C9_DeadbandStep ==
  (updates' # updates /\ last'.name = "filterADCValues") =>
    \A i \in 0..3 :
      Abs(last'.raw[i] - adc[i].lastRaw) < (IF i = 0 THEN 1 ELSE 2) =>
        /\ adc'[i].filtered = adc[i].filtered
        /\ adc'[i].lastRaw = adc[i].lastRaw
        /\ adc'[i].lastUpdate = adc[i].lastUpdate

\* C9: a raw sample closer to the channel's last accepted raw sample than the
\* threshold (1 count on the pitch channel, 2 on the others) leaves the
\* channel's smoothed value, last accepted raw value and timestamp unchanged
C9_Deadband == [][C9_DeadbandStep]_vars

\* a sample one count away from the last accepted one, past the rate limit,
\* was ignored on a channel other than pitch
C9_Witness ==
  /\ last.name = "filterADCValues"
  /\ \E i \in 1..3 :
       /\ last.passed[i]
       /\ Abs(last.raw[i] - adc[i].lastRaw) = 1
       /\ adc[i].lastRaw > 0
       /\ adc[i].lastUpdate < now

\* C10 as stated: after the first call of filterADCValues that follows
\* initializeADCFilters every channel's smoothed value is its raw value
C10_FirstSampleTaken ==
  (last.name = "filterADCValues" /\ updates = 1) =>
    \A i \in 0..3 : adc[i].filtered = last.raw[i] * ADC_UNIT

C11_RateLimitStep ==
  (updates' # updates /\ last'.name = "filterADCValues") =>
    \A i \in 0..3 :
      /\ now - adc[i].lastUpdate < 1 => adc'[i] = adc[i]
      /\ adc'[i] # adc[i] => (adc'[i].lastUpdate = now /\ now - adc[i].lastUpdate >= 1)

\* C11: a raw sample arriving less than 1 ms after the channel's last
\* accepted update leaves the channel as it was, whatever its value; an
\* accepted update is stamped with the current time, at least 1 ms after the
\* previous accepted one
C11_RateLimit == [][C11_RateLimitStep]_vars

\* a sample far from the last accepted one was ignored because an update had
\* been accepted in the same millisecond
C11_Witness ==
  /\ last.name = "filterADCValues"
  /\ now > 0
  /\ \E i \in 0..3 :
       /\ ~last.passed[i]
       /\ adc[i].lastUpdate = now
       /\ Abs(last.raw[i] - adc[i].lastRaw) >= 400

\* ------------------------------------------------------------------------
\* Properties of the algorithms' transient state (Spec)
\* ------------------------------------------------------------------------
\* the noise state n steps after s: the steps of the first half, then those
\* of the second
RECURSIVE C12_Skip(_, _)
C12_Skip(s, n) ==
  IF n = 0 THEN s
  ELSE IF n = 1 THEN NextNoiseState(s)
  ELSE CHOOSE r \in { C12_Skip(t, n - (n \div 2)) : t \in {C12_Skip(s, n \div 2)} } : TRUE

\* the delay line is computed in blocks of C12_Block entries
C12_Block == KARPLUS_BUFFER_SIZE \div 10

\* the k-th of the successive values of the noise generator, times 0.5, for
\* k in 1 .. KARPLUS_BUFFER_SIZE; starts[b] is the noise state before block b
C12_FreshFrom(starts) ==
  [ k \in 1..KARPLUS_BUFFER_SIZE |->
      NoiseValue(C12_Skip(starts[(k - 1) \div C12_Block],
                          ((k - 1) % C12_Block) + 1)) \div 2 ]

\* what initializeKarplusStrong() writes from the noise state given
C12_FreshNoise(noiseState) ==
  CHOOSE fresh \in
    { C12_FreshFrom(st) :
        st \in { [ block \in 0..((KARPLUS_BUFFER_SIZE - 1) \div C12_Block) |->
                     C12_Skip(noiseState, block * C12_Block) ] } } : TRUE

\* the delay line buf is the fresh noise but for the slots in except
C12_Refilled(buf, fresh, except) ==
  /\ Len(buf) = KARPLUS_BUFFER_SIZE
  /\ \A k \in (1..KARPLUS_BUFFER_SIZE) \ except : buf[k] = fresh[k]

C12_TriggerStep ==
  (RisingEdgeStep /\ dsp.currentAlgorithm = ALGO_KARPLUS) =>
    \E fresh \in {C12_FreshNoise(dsp.noiseState)} :
      IF platform = "simulator" \/ dsp'.currentAlgorithm # ALGO_KARPLUS
      THEN dsp'.karplusIndex = 0 /\ C12_Refilled(dsp'.karplusBuffer, fresh, {})
      ELSE \E k \in 1..KARPLUS_BUFFER_SIZE :
             C12_Refilled(dsp'.karplusBuffer, fresh, {k})

\* C12: a trigger taken while Karplus-Strong is selected leaves every one of
\* the KARPLUS_BUFFER_SIZE entries of the delay line holding fresh noise times
\* 0.5 and the read index at 0 (in the firmware, whose iteration goes on to a
\* sample tick, but for the one slot that tick rewrites)
C12_KarplusRefilled == [][C12_TriggerStep]_vars

\* a Karplus-Strong trigger of the desktop engine has refilled the delay line
C12_Witness ==
  /\ platform = "simulator"
  /\ last.name = "setParameters"
  /\ last.triggered
  /\ dsp.envDecayRate = 3000 + dsp.algorithmParam * 5
  /\ dsp.karplusDamping = 9950 - dsp.algorithmParam * 2
  /\ dsp.karplusIndex = 0
  /\ dsp.karplusBuffer # NewTockusDSP.karplusBuffer

\* ------------------------------------------------------------------------
\* SpecKarplus: one Karplus-Strong note.  The desktop program moves the CV1
\* slider to Karplus-Strong and the pitch slider and presses the gate, the firmware
\* reads constant pins with the gate high from its second control update on;
\* sample ticks follow.  For every tick that reads the delay line the
\* slot read and the ticks since that slot was read before are recorded
\* ------------------------------------------------------------------------
\* sample ticks in one behaviour of SpecKarplus
MaxKarplusTicks == 205

\* positions of the pitch slider / pitch CV pin (ADC counts)
KarplusPitchValues == {0, 400, 500, 1000}

\* positions of the firmware's pitch knob (ADC counts): -1, 0 and +1 octave
KarplusKnobValues == {10, 2005, 4000}

InitKarplus ==
  /\ platform \in {"simulator", "firmware"}
  /\ gui = IF platform = "simulator" THEN MainWindowConstructed.g ELSE NewMainWindow
  /\ adc = InitializeADCFilters
  /\ dsp = IF platform = "simulator"
           THEN MainWindowConstructed.d
           ELSE NewTockusDSP
  /\ now = 0
  /\ ret = 0
  /\ i2s = 0
  /\ updates = 0
  /\ last \in { [ name |-> "init", pitch |-> p, knob |-> k, slot |-> 0, period |-> 0,
                  reads |-> [ s \in 0..(KARPLUS_BUFFER_SIZE - 1) |-> 0 ] ] :
                  p \in KarplusPitchValues,
                  k \in IF platform = "simulator" THEN {2005} ELSE KarplusKnobValues }

\* the record of a sample tick that left the engine d1 after tick number n:
\* when the tick ran the Karplus-Strong generator (ran) the slot it read is
\* the one before the read index it left
KarplusRead(ran, d1, n) ==
  IF ran
  THEN \E slot \in {(d1.karplusIndex + KARPLUS_BUFFER_SIZE - 1) % KARPLUS_BUFFER_SIZE} :
         last' = [last EXCEPT !.name = "tick",
                              !.slot = slot,
                              !.period = IF last.reads[slot] = 0 THEN 0
                                         ELSE n - last.reads[slot],
                              !.reads[slot] = n]
  ELSE last' = [last EXCEPT !.name = "tick", !.period = 0]

\* the CV1 slider is moved to Karplus-Strong (first update), the pitch
\* slider is moved (second), then the gate is pressed (third)
KarplusControl ==
  /\ platform = "simulator"
  /\ updates < 3
  /\ \E g \in {IF updates = 0 THEN [gui EXCEPT !.currentCV1 = 1000]
               ELSE [gui EXCEPT !.currentPitchCV = last.pitch,
                                !.gateState = (updates = 2)]} :
       /\ gui' = g
       /\ dsp' = UpdateParametersOp(dsp, now, g)
  /\ updates' = updates + 1
  /\ last' = [last EXCEPT !.name = "setParameters", !.period = 0]
  /\ UNCHANGED << platform, adc, now, ret, i2s >>

KarplusTick ==
  /\ platform = "simulator"
  /\ updates = 3
  /\ dsp.sampleCount < MaxKarplusTicks
  /\ \E r \in {ProcessNextSampleOp(dsp, now)} :
       /\ dsp' = r.d
       /\ ret' = r.v
       /\ KarplusRead(dsp.triggerActive /\ dsp.currentAlgorithm = ALGO_KARPLUS,
                      r.d, r.d.sampleCount)
  /\ UNCHANGED << platform, adc, gui, now, i2s, updates >>

KarplusLoop ==
  /\ platform = "firmware"
  /\ now >= RATE_LIMIT_MS
  /\ dsp.sampleCount < MaxKarplusTicks
  /\ \E r \in {FwLoopOp(dsp, adc, now,
                        [ i \in 0..3 |-> IF i = 0 THEN last.pitch
                                         ELSE IF i = 1 THEN last.knob ELSE 1000 ],
                        dsp.sampleCount >= 4)} :
       /\ dsp' = r.d
       /\ adc' = r.a
       /\ i2s' = r.v
       /\ ret' = r.f
       /\ KarplusRead(dsp.sampleCount >= 4 /\ r.d.currentAlgorithm = ALGO_KARPLUS,
                      r.d, r.d.sampleCount)
  /\ updates' = IF dsp.sampleCount % 4 = 0 THEN updates + 1 ELSE updates
  /\ UNCHANGED << platform, gui, now >>

NextKarplus ==
  \/ KarplusControl
  \/ KarplusTick
  \/ KarplusLoop
  \/ ClockAdvance

SpecKarplus == InitKarplus /\ [][NextKarplus]_vars

\* ticks of delay for a voice at frequency f (1/FREQ_UNIT Hz):
\* min(sampleRate / f, capacity), rounded down
C13_Delay(f) ==
  Min((dsp.sampleRate * FREQ_UNIT) \div f, KARPLUS_BUFFER_SIZE)

\* the ticks between two successive reads of a slot are the delay for the
\* voice's frequency, whichever of the engine's frequency fields is meant and
\* whichever way the delay is rounded
C13_LoopLength ==
  (last.name = "tick" /\ last.period > 0) =>
    \E f \in {dsp.frequency, dsp.currentFrequency, dsp.baseFrequency} :
      last.period \in {C13_Delay(f), C13_Delay(f) + 1}

\* C13 as stated: the recirculating loop is min(44100 / f, capacity) ticks
\* long for a Karplus-Strong voice at f in 80..800 Hz, and the delay line
\* holds at least sampleRate / 80 Hz samples
C13_DelayLength ==
  /\ C13_LoopLength
  /\ (last.name = "tick" /\ last.period > 0) =>
       KARPLUS_BUFFER_SIZE * 80 >= dsp.sampleRate

\* the algorithm a is selected neither when the step starts nor, in a
\* firmware iteration (whose sample part runs under the algorithm its control
\* part selected), when it ends
C14_NotSelected(a) ==
  /\ dsp.currentAlgorithm # a
  /\ platform = "firmware" => dsp'.currentAlgorithm # a

C14_FrameStep ==
  CallStep =>
    /\ C14_NotSelected(ALGO_KARPLUS) =>
         /\ dsp'.karplusBuffer = dsp.karplusBuffer
         /\ dsp'.karplusIndex = dsp.karplusIndex
    /\ C14_NotSelected(ALGO_MODAL) =>
         \A i \in 1..NUM_MODES : dsp'.modes[i].phase = dsp.modes[i].phase

\* C14: a control update, trigger, sample tick or real-time frequency update
\* made while Karplus-Strong is not selected leaves the delay line and its
\* read index unchanged, and one made while Modal is not selected leaves the
\* four modal phases unchanged
C14_TransientUntouched == [][C14_FrameStep]_vars

\* a sounding voice ticked under another algorithm after Karplus-Strong had
\* advanced its read index
C14_Witness ==
  /\ Ticked
  /\ last.wasActive
  /\ dsp.currentAlgorithm \notin {ALGO_KARPLUS, ALGO_MODAL}
  /\ dsp.karplusIndex > 0
  /\ ret # 0

\* ------------------------------------------------------------------------
\* The decay of one Bass voice (SpecDecay): the desktop program from its
\* start, the CV1 slider moved to Bass, the gate pressed once, and sample
\* ticks at host times up to 4.7 seconds
\* ------------------------------------------------------------------------
\* sample ticks in one behaviour of SpecDecay
MaxDecayTicks == 3

\* control updates in one behaviour of SpecDecay
MaxDecayUpdates == 3

\* the instants (milliseconds) at which the host clock is observed: around
\* 2/rate and ln(1000)/rate for the rates 1.5, 3.24 and 5 Hz
DecayClockPoints == {0, 400, 700, 1300, 1400, 2100, 2200, 4600, 4700}

\* positions of the CV2 slider (ADC counts): parameter 0, 0.498 and 1
DecayCV2Values == {8, 1000, 2000}

\* the position of the CV1 slider (ADC counts) that selects Bass
DecayCV1Bass == CHOOSE cv1 \in CV1Values : SelectAlgorithm(cv1) = ALGO_BASS

\* what is recorded: the last call, the calls so far, whether the gate was
\* pressed, the algorithm, parameter and host time of the trigger, and the
\* elapsed time the last sample tick used
InitDecay ==
  /\ platform = "simulator"
  /\ gui = MainWindowConstructed.g
  /\ adc = InitializeADCFilters
  /\ dsp = MainWindowConstructed.d
  /\ now = 0
  /\ ret = 0
  /\ i2s = 0
  /\ updates = 0
  /\ last = [ name |-> "init", calls |-> 0, pressed |-> FALSE, algorithm |-> 0,
              param |-> 0, start |-> 0, elapsed |-> 0, wasActive |-> FALSE ]

\* a GUI slot of SpecDecay: the control changes to g, then updateParameters()
DecayUpdate(g) ==
  /\ updates < MaxDecayUpdates
  /\ gui' = g
  /\ dsp' = UpdateParametersOp(dsp, now, g)
  /\ updates' = updates + 1
  /\ last' = IF GateRisingEdge(g.gateState, dsp.lastGateState)
             THEN [last EXCEPT !.name = "setParameters", !.calls = @ + 1,
                               !.pressed = TRUE,
                               !.algorithm = dsp.currentAlgorithm,
                               !.param = dsp.algorithmParam,
                               !.start = now]
             ELSE [last EXCEPT !.name = "setParameters", !.calls = @ + 1]
  /\ UNCHANGED << platform, adc, now, ret, i2s >>

\* the CV1 slider is moved to Bass before the gate is pressed
DecaySelectBass ==
  /\ ~last.pressed
  /\ gui.currentCV1 # DecayCV1Bass
  /\ DecayUpdate([gui EXCEPT !.currentCV1 = DecayCV1Bass])

\* the CV2 slider is moved, before or after the trigger
DecayCV2Changed ==
  \E value \in DecayCV2Values \ {gui.currentCV2} :
    DecayUpdate([gui EXCEPT !.currentCV2 = value])

\* the gate button is pressed, once in a behaviour
DecayGatePressed ==
  /\ ~last.pressed
  /\ DecayUpdate([gui EXCEPT !.gateState = TRUE])

\* the gate button is released
DecayGateReleased ==
  /\ gui.gateState
  /\ DecayUpdate([gui EXCEPT !.gateState = FALSE])

\* the audio callback calls processNextSample
DecayTick ==
  /\ dsp.sampleCount < MaxDecayTicks
  /\ \E r \in {ProcessNextSampleOp(dsp, now)} :
       /\ dsp' = r.d
       /\ ret' = r.v
  /\ last' = [last EXCEPT !.name = "processNextSample", !.calls = @ + 1,
                          !.elapsed = TimeElapsed(dsp, now),
                          !.wasActive = dsp.triggerActive]
  /\ UNCHANGED << platform, adc, gui, now, i2s, updates >>

\* the clock moves on to a later observation point
DecayClock ==
  /\ \E t \in DecayClockPoints : t > now /\ now' = t
  /\ UNCHANGED << platform, dsp, adc, gui, ret, i2s, updates, last >>

NextDecay ==
  \/ DecaySelectBass
  \/ DecayCV2Changed
  \/ DecayGatePressed
  \/ DecayGateReleased
  \/ DecayTick
  \/ DecayClock

SpecDecay == InitDecay /\ [][NextDecay]_vars

\* the latest call was a sample tick of a voice triggered as Bass
C15_BassTicked ==
  last.name = "processNextSample" /\ last.pressed /\ last.algorithm = ALGO_BASS

\* decayRate * elapsed in 1/1000000 for the rate 1.5 + 3.5 * param selected at
\* the trigger (1/1000 Hz) and the elapsed time of the latest tick (ms)
C15_RateTimesElapsed == (1500 + ((last.param * 35) \div 10)) * last.elapsed

\* C15 as stated: after a single Bass trigger the voice is back to Idle within
\* roughly 2/decayRate seconds, decayRate = 1.5 + 3.5 * param; "roughly" is
\* read with half as much again, so a tick at 3/decayRate or later leaves the
\* voice Idle
C15_IdleWithinTwoOverRate ==
  (C15_BassTicked /\ 2 * C15_RateTimesElapsed >= 3 * 2 * 1000000)
    => ~dsp.triggerActive

\* C15: after a single Bass trigger with rate 1.5 + 3.5 * param the amplitude
\* exp(-rate * elapsed) is below 0.001 only once rate * elapsed exceeds
\* ln(1000) = 6.9: a tick at 7/decayRate seconds or later leaves the voice
\* Idle, and every tick up to 6.9/decayRate seconds leaves it Active
C15_DecayTime ==
  C15_BassTicked =>
    /\ C15_RateTimesElapsed >= 7 * 1000000 => ~dsp.triggerActive
    /\ 10 * C15_RateTimesElapsed <= 69 * 1000000 => dsp.triggerActive

\* a Bass voice that was still Active when a tick past 7/decayRate returned
\* it to Idle
C15_Witness ==
  /\ C15_BassTicked
  /\ last.wasActive
  /\ C15_RateTimesElapsed >= 7 * 1000000
  /\ ~dsp.triggerActive
  /\ dsp.envAmplitude < ENV_THRESHOLD

\* ------------------------------------------------------------------------
\* The filter configuration paths (SpecFilter): the desktop engine with
\* setSampleRate, control updates and sample ticks, and a record of the
\* inputs the last call computed filter coefficients from
\* ------------------------------------------------------------------------
\* sample ticks in one behaviour of SpecFilter
MaxFilterTicks == 2

\* control updates in one behaviour of SpecFilter
MaxFilterUpdates == 3

\* calls of setSampleRate in one behaviour of SpecFilter
MaxRateChanges == 2

\* the sample rates handed to setSampleRate
FilterSampleRates == {8000, 16000, 22050, 44100, 48000}

\* setSampleRate(sr)
SetSampleRate(d, sr) ==
  InitializeResonantFilter(InitializeBandpassFilter([d EXCEPT !.sampleRate = sr]))

\* a coefficient computation: the path, the frequency (1/FREQ_UNIT Hz) and the
\* Q (1/SCALE) in use when sin, cos and the coefficients are computed, and the
\* sample rate
FilterInputs(path, f, q, sampleRate) ==
  [ path |-> path, f |-> f, q |-> q, sampleRate |-> sampleRate ]

\* the arguments of the generators' setBandpassFilter calls
BandpassCalls(d) ==
  CASE d.currentAlgorithm = ALGO_SNARE ->
         { FilterInputs("setBandpassFilter", 800 * FREQ_UNIT + d.algorithmParam * 12,
                        2 * SCALE, d.sampleRate) }
    [] d.currentAlgorithm = ALGO_HIHAT ->
         { FilterInputs("setBandpassFilter", 10000 * FREQ_UNIT, 3 * SCALE, d.sampleRate) }
    [] d.currentAlgorithm = ALGO_CLAP ->
         { FilterInputs("setBandpassFilter", 1000 * FREQ_UNIT, 3 * SCALE, d.sampleRate) }
    [] d.currentAlgorithm = ALGO_COWBELL ->
         { FilterInputs("setBandpassFilter", 2000 * FREQ_UNIT + d.algorithmParam * 30,
                        4 * SCALE, d.sampleRate) }
    [] OTHER -> {}

\* the clamped cutoff and resonance updateResonantFilter has stored in d
ResonantCall(d) ==
  FilterInputs("updateResonantFilter", d.bassFilter.cutoff, d.bassFilter.resonance,
               d.sampleRate)

\* the coefficient computations of a sample tick that started in state d and
\* left state d1
TickFilterCalls(d, d1) ==
  IF ~d.triggerActive THEN {}
  ELSE IF d.currentAlgorithm = ALGO_BASS THEN {ResonantCall(d1)}
  ELSE BandpassCalls(d)

\* what is recorded: the last call, the setSampleRate calls so far and the
\* coefficient computations of the last call
InitFilter ==
  /\ platform = "simulator"
  /\ gui = MainWindowConstructed.g
  /\ adc = InitializeADCFilters
  /\ dsp = MainWindowConstructed.d
  /\ now = 0
  /\ ret = 0
  /\ i2s = 0
  /\ updates = 0
  /\ last = [ name |-> "init", rates |-> 0, computed |-> {} ]

\* setSampleRate(sr): both filters are re-initialised with the new rate
FilterSetSampleRate ==
  /\ last.rates < MaxRateChanges
  /\ \E sr \in FilterSampleRates \ {dsp.sampleRate} :
       \E d1 \in {SetSampleRate(dsp, sr)} :
         /\ dsp' = d1
         /\ last' = [ name |-> "setSampleRate", rates |-> last.rates + 1,
                      computed |-> { FilterInputs("setBandpassFilter", 8000 * FREQ_UNIT,
                                                  2 * SCALE, sr),
                                     ResonantCall(d1) } ]
  /\ UNCHANGED << platform, adc, gui, now, ret, i2s, updates >>

\* a GUI slot of SpecFilter: the control changes to g, then updateParameters()
FilterUpdate(g) ==
  /\ updates < MaxFilterUpdates
  /\ gui' = g
  /\ dsp' = UpdateParametersOp(dsp, now, g)
  /\ updates' = updates + 1
  /\ last' = [ name |-> "setParameters", rates |-> last.rates, computed |-> {} ]
  /\ UNCHANGED << platform, adc, now, ret, i2s >>

FilterCV1Changed ==
  \E value \in CV1Values \ {gui.currentCV1} :
    FilterUpdate([gui EXCEPT !.currentCV1 = value])

FilterCV2Changed ==
  \E value \in DecayCV2Values \ {gui.currentCV2} :
    FilterUpdate([gui EXCEPT !.currentCV2 = value])

\* the gate button is pressed or released
FilterGateChanged ==
  \E gate \in BOOLEAN \ {gui.gateState} :
    FilterUpdate([gui EXCEPT !.gateState = gate])

\* the audio callback calls processNextSample
FilterTick ==
  /\ dsp.sampleCount < MaxFilterTicks
  /\ \E r \in {ProcessNextSampleOp(dsp, now)} :
       /\ dsp' = r.d
       /\ ret' = r.v
       /\ last' = [ name |-> "processNextSample", rates |-> last.rates,
                    computed |-> TickFilterCalls(dsp, r.d) ]
  /\ UNCHANGED << platform, adc, gui, now, i2s, updates >>

NextFilter ==
  \/ FilterSetSampleRate
  \/ FilterCV1Changed
  \/ FilterCV2Changed
  \/ FilterGateChanged
  \/ FilterTick

SpecFilter == InitFilter /\ [][NextFilter]_vars

\* C16: whatever sample rate setSampleRate was given and whatever the
\* parameters are, every coefficient computation of the latest call used a
\* centre or cutoff frequency strictly between 0 and sampleRate/2 and a
\* positive Q, the resonant filter's within [20, 8000] Hz and [0.5, 20]
C16_FilterInputsClamped ==
  \A c \in last.computed :
    /\ 0 < c.f
    /\ 2 * c.f < c.sampleRate * FREQ_UNIT
    /\ c.q > 0
    /\ c.path = "updateResonantFilter" =>
         /\ 20 * FREQ_UNIT <= c.f /\ c.f <= 8000 * FREQ_UNIT
         /\ SCALE \div 2 <= c.q /\ c.q <= 20 * SCALE

\* ------------------------------------------------------------------------
\* SpecOutput: the output stages of the two ports on their own.  The initial
\* state holds the raw generator sample, the anti-alias memory and the
\* selected algorithm; the one action applies both stages to them
\* ------------------------------------------------------------------------
\* the raw generator samples and anti-alias memories explored, in 1/SCALE
OutputSamples == {-20000, -10000, -5000, -1000, 0, 1000, 5000, 10000, 20000}

InitOutput ==
  /\ platform = "firmware"
  /\ gui = NewMainWindow
  /\ adc = InitializeADCFilters
  /\ dsp = NewTockusDSP
  /\ now = 0
  /\ ret = 0
  /\ i2s = 0
  /\ updates = 0
  /\ last \in { [ name |-> "arguments", sample |-> s, lastSample |-> m, algorithm |-> a,
                  desktop |-> 0, firmware |-> 0, int16 |-> 0 ] :
                  s \in OutputSamples, m \in {-5000, 0, 5000},
                  a \in 0..(NUM_ALGORITHMS - 1) }

\* both generateDrumSample functions from the anti-aliasing filter on, for the
\* same generator result
ApplyOutputStages ==
  /\ last.name = "arguments"
  /\ \E g \in {[ d |-> [dsp EXCEPT !.currentAlgorithm = last.algorithm],
                 v |-> last.sample ]} :
       \E sim \in {OutputStage(g, last.lastSample, AlgorithmGain(last.algorithm))},
          fw \in {FwOutputStage(g, last.lastSample)} :
         last' = [last EXCEPT !.name = "generateDrumSample",
                              !.desktop = sim.v,
                              !.firmware = fw.f,
                              !.int16 = fw.v]
  /\ UNCHANGED << platform, dsp, adc, gui, now, ret, i2s, updates >>

NextOutput == ApplyOutputStages

SpecOutput == InitOutput /\ [][NextOutput]_vars

\* C17: for the same raw generator sample, anti-alias memory and selected
\* algorithm the firmware's finalized sample equals the desktop engine's
\* (master gain times the per-algorithm gain, then soft saturation), and the
\* int16 the firmware returns is that sample times 32767
C17_SameOutputStage ==
  last.name = "generateDrumSample" =>
    /\ last.firmware = last.desktop
    /\ last.int16 = ToInt16(TruncDiv(last.desktop * amplitude, SCALE))

\* ------------------------------------------------------------------------
\* The status indicator (SpecLed): the firmware's loop() on core 0, cut at
\* its writes of triggerActive and currentAlgorithm, interleaved with
\* core1Task on core 1, cut at its reads of the two
\* ------------------------------------------------------------------------
\* iterations of loop() in one behaviour of SpecLed
MaxLedLoops == 5

\* the instants (milliseconds) at which millis() is observed
LedClockPoints == {0, 100, 200}

\* what analogRead returns for << PITCH_CV, PITCH_KNOB, CV1, CV2 >>: CV1 at
\* 0 V, inside its range and at full scale
LedRawInputs ==
  { [ i \in 0..3 |-> IF i = 0 THEN 0 ELSE IF i = 1 THEN 2005
                     ELSE IF i = 2 THEN cv1 ELSE 1000 ] : cv1 \in {0, 1000, 4095} }

\* the colour table of core1Task has NUM_ALGORITHMS entries, 0..7
LedColours == 0..(NUM_ALGORITHMS - 1)

\* what is recorded: the last step, core 0's position in loop() and the gate
\* it read, core 1's position in core1Task, its lastUpdate, the index it
\* read from currentAlgorithm and whether it dimmed the LED
InitLed ==
  /\ platform = "firmware"
  /\ gui = NewMainWindow
  /\ adc = InitializeADCFilters
  /\ dsp = NewTockusDSP
  /\ now = 0
  /\ ret = 0
  /\ i2s = 0
  /\ updates = 0
  /\ last = [ name |-> "init", pc |-> "top", gate |-> FALSE, ledpc |-> "wait",
              lastUpdate |-> 0, colour |-> 0, dim |-> FALSE ]

\* loop(), sampleCount % 4 == 0: updateParameters() up to the gate handling;
\* triggerDrum() writes triggerActive
LedLoopGate ==
  /\ last.pc = "top"
  /\ dsp.sampleCount < MaxLedLoops
  /\ dsp.sampleCount % 4 = 0
  /\ \E rawValues \in LedRawInputs, gate \in BOOLEAN :
       /\ adc' = FilterADCValuesOp(adc, now, rawValues, dsp.currentAlgorithm)
       /\ dsp' = [(IF GateRisingEdge(gate, dsp.lastGateState)
                   THEN TriggerDrum(dsp, now) ELSE dsp)
                  EXCEPT !.gateState = gate, !.lastGateState = gate]
       /\ last' = [last EXCEPT !.name = "updateParameters", !.pc = "gated",
                               !.gate = gate]
  /\ UNCHANGED << platform, gui, now, ret, i2s, updates >>

\* the rest of updateParameters(): frequency, currentAlgorithm, algorithmParam
LedLoopSelect ==
  /\ last.pc = "gated"
  /\ dsp' = FwFiltered(dsp, adc, now, last.gate).d
  /\ updates' = updates + 1
  /\ last' = [last EXCEPT !.name = "updateParameters", !.pc = "selected"]
  /\ UNCHANGED << platform, adc, gui, now, ret, i2s >>

\* the sample part of loop(): the frequency update, the sample, the envelope
\* test that clears triggerActive, the I2S write and sampleCount++
LedLoopSample ==
  /\ dsp.sampleCount < MaxLedLoops
  /\ \/ last.pc = "selected"
     \/ last.pc = "top" /\ dsp.sampleCount % 4 # 0
  /\ \E r \in {IF last.pc = "selected"
               THEN FwControlTick([ d |-> dsp, a |-> adc ], now)
               ELSE FwSampleTick(dsp, adc, now)} :
       /\ dsp' = r.d
       /\ i2s' = r.v
       /\ ret' = r.f
  /\ last' = [last EXCEPT !.name = "loop", !.pc = "top"]
  /\ UNCHANGED << platform, adc, gui, now, updates >>

\* core1Task: now - lastUpdate >= 100, lastUpdate = now, FastLED.clear()
LedWake ==
  /\ last.ledpc = "wait"
  /\ now - last.lastUpdate >= 100
  /\ last' = [last EXCEPT !.name = "core1Task", !.ledpc = "colour",
                          !.lastUpdate = now, !.dim = FALSE]
  /\ UNCHANGED << platform, dsp, adc, gui, now, ret, i2s, updates >>

\* core1Task: leds[0] = colors[currentAlgorithm]
LedColour ==
  /\ last.ledpc = "colour"
  /\ last' = [last EXCEPT !.name = "core1Task", !.ledpc = "dim",
                          !.colour = dsp.currentAlgorithm]
  /\ UNCHANGED << platform, dsp, adc, gui, now, ret, i2s, updates >>

\* core1Task: if (triggerActive) fadeToBlackBy(64); FastLED.show()
LedShow ==
  /\ last.ledpc = "dim"
  /\ last' = [last EXCEPT !.name = "core1Task", !.ledpc = "wait",
                          !.dim = dsp.triggerActive]
  /\ UNCHANGED << platform, dsp, adc, gui, now, ret, i2s, updates >>

\* millis() moves on to a later observation point
LedClock ==
  /\ \E t \in LedClockPoints : t > now /\ now' = t
  /\ UNCHANGED << platform, dsp, adc, gui, ret, i2s, updates, last >>

NextLed ==
  \/ LedLoopGate
  \/ LedLoopSelect
  \/ LedLoopSample
  \/ LedWake
  \/ LedColour
  \/ LedShow
  \/ LedClock

SpecLed == InitLed /\ [][NextLed]_vars

\* C18: a step of core1Task writes no engine state (the globals and the ADC
\* filters are left as they were), and wherever in loop() core 0 is when
\* core 1 reads currentAlgorithm, the value read is an index 0..7 of the
\* colour table
C18_LedStep ==
  last'.name = "core1Task" =>
    /\ dsp' = dsp
    /\ adc' = adc
    /\ last'.pc = last.pc
    /\ last'.colour \in LedColours
    /\ dsp.currentAlgorithm \in LedColours

C18_StatusReadsOnly == [][C18_LedStep]_vars

\* core 1 has read currentAlgorithm while core 0 was inside updateParameters(),
\* after triggerDrum() and before the new algorithm was stored, and has
\* shown the colour of another algorithm than Bass with the LED dimmed
C18_Witness ==
  /\ last.name = "core1Task"
  /\ last.ledpc = "wait"
  /\ last.pc = "gated"
  /\ last.colour # ALGO_BASS
  /\ last.dim
  /\ dsp.triggerActive

\* ------------------------------------------------------------------------
\* The desktop host's two threads (SpecHost): the GUI thread calls
\* setParameters from its slots, CoreAudio's render thread calls
\* processNextSample from audioCallback, on the same TockusDSP and with no
\* lock; processNextSample is cut between its read of envAmplitude and its
\* write of triggerActive
\* ------------------------------------------------------------------------
\* sample ticks in one behaviour of SpecHost
MaxHostTicks == 3

\* control updates in one behaviour of SpecHost
MaxHostUpdates == 3

\* the instants (milliseconds) at which the host clock is observed: the
\* trigger, and a time by which the Karplus envelope has decayed
HostClockPoints == {0, 1400}

\* what is recorded: the last call, where the render thread is inside
\* processNextSample, the outcome of its envelope test, and whether the
\* latest trigger is still waiting for its first sample tick
InitHost ==
  /\ platform = "simulator"
  /\ gui = MainWindowConstructed.g
  /\ adc = InitializeADCFilters
  /\ dsp = MainWindowConstructed.d
  /\ now = 0
  /\ ret = 0
  /\ i2s = 0
  /\ updates = 0
  /\ last = [ name |-> "init", audio |-> "idle", decayed |-> FALSE,
              trigger |-> "none" ]

\* a GUI slot on the GUI thread: the control changes to g, then
\* updateParameters() calls setParameters, wherever the render thread is
HostUpdate(g) ==
  /\ updates < MaxHostUpdates
  /\ gui' = g
  /\ dsp' = UpdateParametersOp(dsp, now, g)
  /\ updates' = updates + 1
  /\ last' = [last EXCEPT !.name = "setParameters",
                          !.trigger = IF GateRisingEdge(g.gateState, dsp.lastGateState)
                                      THEN "pending" ELSE @]
  /\ UNCHANGED << platform, adc, now, ret, i2s >>

HostCV2Changed ==
  \E value \in DecayCV2Values \ {gui.currentCV2} :
    HostUpdate([gui EXCEPT !.currentCV2 = value])

HostGatePressed ==
  /\ ~gui.gateState
  /\ HostUpdate([gui EXCEPT !.gateState = TRUE])

HostGateReleased ==
  /\ gui.gateState
  /\ HostUpdate([gui EXCEPT !.gateState = FALSE])

\* processNextSample on the render thread up to its envelope test: the
\* frequency update, the sample, and the read of envAmplitude
HostTickGenerate ==
  /\ last.audio = "idle"
  /\ dsp.sampleCount < MaxHostTicks
  /\ \E d1 \in {IF dsp.sampleCount % 4 = 0 /\ dsp.triggerActive
                THEN UpdateRealtimeFrequency(dsp) ELSE dsp} :
       \E g \in {IF VoiceActive(d1) THEN GenerateDrumSample(d1, TimeElapsed(d1, now))
                 ELSE [ d |-> d1, v |-> 0 ]} :
         /\ dsp' = g.d
         /\ ret' = g.v
         /\ last' = [ name |-> "processNextSample", audio |-> "tested",
                      decayed |-> VoiceActive(d1) /\ EnvelopeDecayed(g.d.envAmplitude),
                      trigger |-> IF VoiceActive(d1) /\ last.trigger = "pending"
                                  THEN "played" ELSE last.trigger ]
  /\ UNCHANGED << platform, adc, gui, now, i2s, updates >>

\* the rest of processNextSample: triggerActive = false if the test
\* succeeded, sampleCount++, return
HostTickEnd ==
  /\ last.audio = "tested"
  /\ dsp' = [dsp EXCEPT !.triggerActive = IF last.decayed THEN FALSE ELSE @,
                        !.sampleCount = @ + 1]
  /\ last' = [last EXCEPT !.name = "processNextSample", !.audio = "idle"]
  /\ UNCHANGED << platform, adc, gui, now, ret, i2s, updates >>

\* the clock moves on to a later observation point
HostClock ==
  /\ \E t \in HostClockPoints : t > now /\ now' = t
  /\ UNCHANGED << platform, dsp, adc, gui, ret, i2s, updates, last >>

NextHost ==
  \/ HostCV2Changed
  \/ HostGatePressed
  \/ HostGateReleased
  \/ HostTickGenerate
  \/ HostTickEnd
  \/ HostClock

SpecHost == InitHost /\ [][NextHost]_vars

\* C19: setParameters never runs while the render thread is inside
\* processNextSample, and a trigger started by setParameters is never lost:
\* until its first sample tick the voice stays Active
C19_CallsSerialised ==
  /\ last.name = "setParameters" => last.audio = "idle"
  /\ last.trigger = "pending" => dsp.triggerActive

\* ------------------------------------------------------------------------
\* Control inputs outside the nominal ranges (SpecControls): setParameters
\* with normalised values below 0 and above 1, and the firmware's loop()
\* with the whole range of analogRead
\* ------------------------------------------------------------------------
\* sample ticks of the desktop engine in one behaviour of SpecControls
MaxControlTicks == 2

\* setParameters calls in one behaviour of SpecControls
MaxControlUpdates == 1

\* iterations of the firmware's loop() in one behaviour of SpecControls
MaxControlLoops == 5

\* the normalised cv1 and cv2 handed to setParameters, in 1/NORM_UNIT:
\* -1.0, 0.5, 2.0 and 40.0
ControlNormValues == {-100000, 50000, 200000, 4000000}

\* what analogRead returns for CV1 and CV2: the ends of the 12-bit range,
\* values below CV1_MIN and above CV1_MAX
ControlRawValues == {0, 5, 1000, 4095}

\* (uint16_t) of a float with integral part x: the value itself when it
\* fits; otherwise the conversion is undefined and a build may wrap or
\* saturate
FloatToUint16(x) ==
  IF 0 <= x /\ x <= 65535 THEN {x} ELSE {ToUint16(x), 0, 65535}

\* the ADC count setParameters computes from a normalised value, a whole
\* number of thousandths (the product is kept within 32 bits)
ControlCount(norm, lo, hi) ==
  FloatToUint16(TruncDiv((norm \div 100) * (hi - lo) + (NORM_UNIT \div 100) * lo,
                         NORM_UNIT \div 100))

\* what is recorded: the last call and the cv1 and cv2 it was given
InitControls ==
  /\ platform \in {"simulator", "firmware"}
  /\ gui = NewMainWindow
  /\ adc = InitializeADCFilters
  /\ dsp = NewTockusDSP
  /\ now = 0
  /\ ret = 0
  /\ i2s = 0
  /\ updates = 0
  /\ last = [ name |-> "init", cv1 |-> 0, cv2 |-> 0, gate |-> FALSE ]

\* setParameters(pitch, cv1, cv2, gate) with any normalised cv1 and cv2
ControlsSetParameters ==
  /\ platform = "simulator"
  /\ updates < MaxControlUpdates
  /\ \E cv1 \in ControlNormValues, cv2 \in ControlNormValues, gate \in BOOLEAN :
       \E cv1Val \in ControlCount(cv1, CV1_MIN, CV1_MAX),
          cv2Val \in ControlCount(cv2, CV2_MIN, CV2_MAX) :
         /\ dsp' = Controls(IF GateRisingEdge(gate, dsp.lastGateState)
                            THEN TriggerDrum(dsp, now) ELSE dsp,
                            gate, PITCH_CV_MAX \div 2, cv1Val, cv2Val)
         /\ last' = [ name |-> "setParameters", cv1 |-> cv1, cv2 |-> cv2, gate |-> gate ]
  /\ updates' = updates + 1
  /\ UNCHANGED << platform, adc, gui, now, ret, i2s >>

\* processNextSample()
ControlsTick ==
  /\ platform = "simulator"
  /\ dsp.sampleCount < MaxControlTicks
  /\ \E r \in {ProcessNextSampleOp(dsp, now)} :
       /\ dsp' = r.d
       /\ ret' = r.v
  /\ last' = [last EXCEPT !.name = "processNextSample"]
  /\ UNCHANGED << platform, adc, gui, now, i2s, updates >>

\* one iteration of the firmware's loop(); the pins are read in the
\* iterations that run updateParameters()
ControlsLoop ==
  /\ platform = "firmware"
  /\ dsp.sampleCount < MaxControlLoops
  /\ \E cv1 \in (IF dsp.sampleCount % 4 = 0 THEN ControlRawValues ELSE {last.cv1}),
        cv2 \in (IF dsp.sampleCount % 4 = 0 THEN ControlRawValues ELSE {last.cv2}),
        gate \in (IF dsp.sampleCount % 4 = 0 THEN BOOLEAN ELSE {last.gate}) :
       \E r \in {FwLoopOp(dsp, adc, now,
                          [ i \in 0..3 |-> IF i = 0 THEN 0 ELSE IF i = 1 THEN 2005
                                           ELSE IF i = 2 THEN cv1 ELSE cv2 ], gate)} :
         /\ dsp' = r.d
         /\ adc' = r.a
         /\ i2s' = r.v
         /\ ret' = r.f
         /\ last' = [ name |-> "loop", cv1 |-> cv1, cv2 |-> cv2, gate |-> gate ]
  /\ updates' = IF dsp.sampleCount % 4 = 0 THEN updates + 1 ELSE updates
  /\ UNCHANGED << platform, gui, now >>

\* the clock moves on to a later observation point
ControlsClock ==
  /\ \E t \in ClockPoints : t > now /\ now' = t
  /\ UNCHANGED << platform, dsp, adc, gui, ret, i2s, updates, last >>

NextControls ==
  \/ ControlsSetParameters
  \/ ControlsTick
  \/ ControlsLoop
  \/ ControlsClock

SpecControls == InitControls /\ [][NextControls]_vars

\* C20: in every reachable state, whatever control values setParameters and
\* updateParameters were fed (values outside the nominal ranges included),
\* currentAlgorithm is one index in 0..7 and algorithmParam is in [0, 1]
C20_SelectionInRange ==
  /\ dsp.currentAlgorithm \in 0..(NUM_ALGORITHMS - 1)
  /\ 0 <= dsp.algorithmParam
  /\ dsp.algorithmParam <= 1000

\* setParameters was given cv1 = 2.0 and cv2 = -1.0 and selected the last
\* algorithm with the parameter at an end of its range; or the firmware read
\* full scale on CV1 and 5 counts on CV2 and selected the last algorithm with
\* parameter 0
C20_Witness ==
  \/ /\ last.name = "setParameters"
     /\ last.cv1 = 2 * NORM_UNIT
     /\ last.cv2 = -NORM_UNIT
     /\ dsp.currentAlgorithm = NUM_ALGORITHMS - 1
     /\ dsp.algorithmParam \in {0, 1000}
  \/ /\ last.name = "loop"
     /\ last.cv1 = PITCH_CV_MAX
     /\ last.cv2 < CV2_MIN
     /\ updates > 0
     /\ adc[2].filtered > CV1_MAX * ADC_UNIT
     /\ dsp.currentAlgorithm = NUM_ALGORITHMS - 1
     /\ dsp.algorithmParam = 0

\* C21: a control update that sees the gate rise starts the envelope from
\* the values of that same update: the decay rate is the formula of the
\* algorithm the update selected at the update's parameter, and the captured
\* trigger frequency is the frequency the update mapped from its pitch
C21_TriggerStep ==
  RisingEdgeStep =>
    /\ dsp'.envDecayRate = DecayRateOf(dsp'.currentAlgorithm, dsp'.algorithmParam)
    /\ dsp'.baseFrequency = dsp'.frequency

C21_TriggerUsesUpdate == [][C21_TriggerStep]_vars

\* the frequency f lies in the range the scaling gives the algorithm a
C22_InRange(f, a) ==
  /\ f >= C7_Ranges[a + 1][1] * FREQ_UNIT
  /\ f <= C7_Ranges[a + 1][2] * FREQ_UNIT

\* C22: in every sample tick that runs a generator, the real-time frequency
\* the generator reads lies in the range of the algorithm that is selected,
\* the first tick after a trigger that follows an algorithm change included
C22_GeneratorStep ==
  (TickStep /\ (last'.wasActive \/ last'.triggered)) =>
    C22_InRange(dsp'.currentFrequency, dsp'.currentAlgorithm)

C22_FrequencyInSelectedRange == [][C22_GeneratorStep]_vars

\* the unscaled base frequency of the live pitch: the volts-per-octave law
\* applied to the pitch slider (simulator), or to the filtered pitch CV and
\* pitch knob (firmware, filters a)
C23_LiveBaseFrequency(g, a) ==
  IF platform = "simulator"
  THEN MapFrequency(
         ToUint16(TruncDiv((((g.currentPitchCV - PITCH_CV_MIN) * NORM_UNIT)
                              \div (PITCH_CV_MAX - PITCH_CV_MIN))
                             * (PITCH_CV_MAX - PITCH_CV_MIN)
                           + NORM_UNIT * PITCH_CV_MIN, NORM_UNIT)), 1650)
  ELSE MapFrequency(ToUint16(a[0].filtered \div ADC_UNIT),
                    Clamp(ArduinoMap(ToUint16(a[1].filtered \div ADC_UNIT),
                                     PITCH_KNOB_MIN, PITCH_KNOB_MAX, 0, 3300), 0, 3300))

\* a sample tick that runs updateRealtimeFrequency(): sampleCount % 4 == 0
\* with the voice Active
C23_RescaleStep ==
  /\ TickStep
  /\ dsp.sampleCount % 4 = 0
  /\ last'.wasActive \/ last'.triggered

\* C23: after a real-time frequency update currentFrequency is the scaling of
\* the selected algorithm applied once to the unscaled base frequency of the
\* live pitch
C23_ScaledStep ==
  C23_RescaleStep =>
    dsp'.currentFrequency =
      ApplyAlgorithmFrequencyScaling(C23_LiveBaseFrequency(gui', adc'),
                                     dsp'.currentAlgorithm)

C23_ScaledOnce == [][C23_ScaledStep]_vars

\* a sample tick of a sounding Karplus-Strong voice (no trigger in the step)
\* that ran the generator and left the real-time frequency as it was
C24_ConstantPitchTick ==
  /\ last'.name = "tick"
  /\ last'.reads # last.reads
  /\ dsp.triggerActive
  /\ dsp'.currentFrequency = dsp.currentFrequency

\* C24: the Karplus-Strong read index is set from the frequency only when
\* the frequency changed: in a tick that leaves the frequency as it was the
\* index advances by exactly one modulo the capacity
C24_TickStep ==
  C24_ConstantPitchTick =>
    dsp'.karplusIndex = (dsp.karplusIndex + 1) % KARPLUS_BUFFER_SIZE

C24_IndexAdvancesByOne == [][C24_TickStep]_vars

\* ------------------------------------------------------------------------
\* SpecSelect: the algorithm of a voice.  The desktop program's CV1 slider
\* and gate button and its sample ticks, or the firmware's loop(); recorded
\* are the algorithm whose state the latest triggerDrum() initialised
\* (prepared), the algorithm the update that triggered left selected
\* (selected) and the algorithm whose generator the latest tick ran (ran),
\* each -1 when there is none
\* ------------------------------------------------------------------------
\* control updates of the desktop GUI in one behaviour of SpecSelect
MaxSelectUpdates == 3

\* sample ticks of the desktop engine in one behaviour of SpecSelect
MaxSelectTicks == 2

\* iterations of the firmware's loop() in one behaviour of SpecSelect
MaxSelectLoops == 5

InitSelect ==
  /\ platform \in {"simulator", "firmware"}
  /\ gui = IF platform = "simulator" THEN MainWindowConstructed.g ELSE NewMainWindow
  /\ adc = InitializeADCFilters
  /\ dsp = IF platform = "simulator"
           THEN MainWindowConstructed.d
           ELSE NewTockusDSP
  /\ now = 0
  /\ ret = 0
  /\ i2s = 0
  /\ updates = 0
  /\ last = [ name |-> "init", prepared |-> -1, selected |-> -1, ran |-> -1 ]

\* what a control update that took the engine from d to d1 records: a
\* trigger ran initializeEnvelopes() under d's algorithm
SelectRecord(name, triggered, d, d1, ran) ==
  [ name     |-> name,
    prepared |-> IF triggered THEN d.currentAlgorithm ELSE last.prepared,
    selected |-> IF triggered THEN d1.currentAlgorithm ELSE last.selected,
    ran      |-> ran ]

\* a GUI slot: the control changes to g, then updateParameters()
SelectUpdate(g) ==
  /\ platform = "simulator"
  /\ updates < MaxSelectUpdates
  /\ gui' = g
  /\ \E d1 \in {UpdateParametersOp(dsp, now, g)} :
       /\ dsp' = d1
       /\ last' = SelectRecord("setParameters",
                               GateRisingEdge(g.gateState, dsp.lastGateState),
                               dsp, d1, -1)
  /\ updates' = updates + 1
  /\ UNCHANGED << platform, adc, now, ret, i2s >>

SelectCV1Changed ==
  \E value \in CV1Values \ {gui.currentCV1} :
    SelectUpdate([gui EXCEPT !.currentCV1 = value])

SelectGateChanged ==
  \E gate \in BOOLEAN \ {gui.gateState} :
    SelectUpdate([gui EXCEPT !.gateState = gate])

\* the audio callback calls processNextSample: the generator of the selected
\* algorithm runs when the voice is Active
SelectTick ==
  /\ platform = "simulator"
  /\ dsp.sampleCount < MaxSelectTicks
  /\ \E r \in {ProcessNextSampleOp(dsp, now)} :
       /\ dsp' = r.d
       /\ ret' = r.v
  /\ last' = [last EXCEPT !.name = "processNextSample",
                          !.ran = IF dsp.triggerActive THEN dsp.currentAlgorithm
                                  ELSE -1]
  /\ UNCHANGED << platform, adc, gui, now, i2s, updates >>

\* one iteration of the firmware's loop(): its sample part runs the generator
\* of the algorithm its control part left selected
SelectLoop ==
  /\ platform = "firmware"
  /\ dsp.sampleCount < MaxSelectLoops
  /\ \E rawValues \in (IF dsp.sampleCount % 4 = 0 THEN FwRawInputs
                       ELSE {[i \in 0..3 |-> 0]}),
        gate \in (IF dsp.sampleCount % 4 = 0 THEN BOOLEAN ELSE {dsp.lastGateState}) :
       \E r \in {FwLoopOp(dsp, adc, now, rawValues, gate)},
          tr \in {dsp.sampleCount % 4 = 0 /\ GateRisingEdge(gate, dsp.lastGateState)} :
         /\ dsp' = r.d
         /\ adc' = r.a
         /\ i2s' = r.v
         /\ ret' = r.f
         /\ last' = SelectRecord("loop", tr, dsp, r.d,
                                 IF dsp.triggerActive \/ tr
                                 THEN r.d.currentAlgorithm ELSE -1)
  /\ updates' = IF dsp.sampleCount % 4 = 0 THEN updates + 1 ELSE updates
  /\ UNCHANGED << platform, gui, now >>

NextSelect ==
  \/ SelectCV1Changed
  \/ SelectGateChanged
  \/ SelectTick
  \/ SelectLoop
  \/ ClockAdvance

SpecSelect == InitSelect /\ [][NextSelect]_vars

\* C25: the generator a tick runs is the generator of the algorithm selected
\* at the latest trigger, whether that is the algorithm whose state the
\* trigger initialised or the one its control update left selected; a
\* selection changed while the voice sounds runs no other generator
C25_GeneratorOfTrigger ==
  last.ran # -1 => last.ran \in {last.prepared, last.selected}

\* ------------------------------------------------------------------------
\* SpecNoise: the noise source on its own, from the seed the constructor and
\* triggerDrum() set; recorded are the draws made and whether a negative and
\* a non-negative value have been returned
\* ------------------------------------------------------------------------
\* calls of generateWhiteNoise in one behaviour of SpecNoise
MaxNoiseDraws == 400

InitNoise ==
  /\ platform \in {"simulator", "firmware"}
  /\ gui = NewMainWindow
  /\ adc = InitializeADCFilters
  /\ dsp = NewTockusDSP
  /\ now = 0
  /\ ret = 0
  /\ i2s = 0
  /\ updates = 0
  /\ last = [ name |-> "init", draws |-> 0, negative |-> FALSE, nonNegative |-> FALSE ]

\* one call of generateWhiteNoise()
NoiseDraw ==
  /\ last.draws < MaxNoiseDraws
  /\ \E r \in {GenerateWhiteNoise(dsp)} :
       /\ dsp' = r.d
       /\ ret' = r.v
       /\ last' = [ name |-> "generateWhiteNoise",
                    draws |-> last.draws + 1,
                    negative |-> last.negative \/ r.v < 0,
                    nonNegative |-> last.nonNegative \/ r.v >= 0 ]
  /\ UNCHANGED << platform, adc, gui, now, i2s, updates >>

NextNoise == NoiseDraw

SpecNoise == InitNoise /\ [][NextNoise]_vars

\* every value returned lies in [-1, 1)
C26_OutputInRange ==
  last.name = "generateWhiteNoise" => (ret >= -SCALE /\ ret < SCALE)

\* every value returned is negative: the 15 bits taken from the state, over
\* 32768, are below 1
C26_OutputNegative ==
  last.name = "generateWhiteNoise" => ret < 0

\* C26: from the seed 1 the values the noise source returns stay in [-1, 1)
\* and both negative and non-negative values occur among them
C26_NoiseBipolar ==
  /\ C26_OutputInRange
  /\ last.draws = MaxNoiseDraws => (last.negative /\ last.nonNegative)

\* ------------------------------------------------------------------------
\* SpecIdle: the end of a voice.  The desktop program with its CV1 and CV2
\* sliders and gate button; the gate is pressed once, at one of the early
\* clock points, and the clock is observed up to 4.8 seconds.  The audio
\* callback keeps running and the clock keeps advancing: a sample tick is
\* always possible at a clock point that has not seen one, and both are
\* weakly fair
\* ------------------------------------------------------------------------
\* sample ticks in one behaviour of SpecIdle, besides the first at each
\* clock point
MaxIdleTicks == 2

\* control updates in one behaviour of SpecIdle
MaxIdleUpdates == 3

\* the instants (milliseconds) at which the host clock is observed
IdleClockPoints == {0, 100, 2000, 4800}

\* the instants at which the gate may be pressed: the last clock point is
\* more than ln(1000) / 1.5 Hz later
IdleTriggerPoints == {0, 100}

InitIdle ==
  /\ platform = "simulator"
  /\ gui = MainWindowConstructed.g
  /\ adc = InitializeADCFilters
  /\ dsp = MainWindowConstructed.d
  /\ now = 0
  /\ ret = 0
  /\ i2s = 0
  /\ updates = 0
  /\ last = [ name |-> "init", pressed |-> FALSE, ticked |-> FALSE,
              wasActive |-> FALSE ]

\* a GUI slot of SpecIdle: the control changes to g, then updateParameters()
IdleUpdate(g) ==
  /\ updates < MaxIdleUpdates
  /\ gui' = g
  /\ dsp' = UpdateParametersOp(dsp, now, g)
  /\ updates' = updates + 1
  /\ last' = [last EXCEPT !.name = "setParameters",
                          !.pressed = @ \/ GateRisingEdge(g.gateState, dsp.lastGateState)]
  /\ UNCHANGED << platform, adc, now, ret, i2s >>

IdleCV1Changed ==
  \E value \in CV1Values \ {gui.currentCV1} :
    IdleUpdate([gui EXCEPT !.currentCV1 = value])

IdleCV2Changed ==
  \E value \in DecayCV2Values \ {gui.currentCV2} :
    IdleUpdate([gui EXCEPT !.currentCV2 = value])

\* the gate button is pressed, once in a behaviour
IdleGatePressed ==
  /\ ~last.pressed
  /\ now \in IdleTriggerPoints
  /\ IdleUpdate([gui EXCEPT !.gateState = TRUE])

IdleGateReleased ==
  /\ gui.gateState
  /\ IdleUpdate([gui EXCEPT !.gateState = FALSE])

\* the audio callback calls processNextSample
IdleTick ==
  /\ dsp.sampleCount < MaxIdleTicks \/ ~last.ticked
  /\ \E r \in {ProcessNextSampleOp(dsp, now)} :
       /\ dsp' = r.d
       /\ ret' = r.v
  /\ last' = [last EXCEPT !.name = "processNextSample", !.ticked = TRUE,
                          !.wasActive = dsp.triggerActive]
  /\ UNCHANGED << platform, adc, gui, now, i2s, updates >>

\* the clock moves on to a later observation point
IdleClock ==
  /\ \E t \in IdleClockPoints : t > now /\ now' = t
  /\ last' = [last EXCEPT !.ticked = FALSE]
  /\ UNCHANGED << platform, dsp, adc, gui, ret, i2s, updates >>

NextIdle ==
  \/ IdleCV1Changed
  \/ IdleCV2Changed
  \/ IdleGatePressed
  \/ IdleGateReleased
  \/ IdleTick
  \/ IdleClock

\* ENABLED IdleTick: processNextSample has no precondition of its own
IdleTickEnabled == dsp.sampleCount < MaxIdleTicks \/ ~last.ticked

\* the steps of NextIdle that are IdleTick steps: the only ones that count
\* a sample
IdleTicked == dsp'.sampleCount = dsp.sampleCount + 1

\* the audio device calls back for as long as the stream runs: weak fairness
\* of IdleTick, written with its enabling condition and its steps spelled out
IdleTickFair == []<>(~IdleTickEnabled) \/ []<><<IdleTicked>>_vars

SpecIdle ==
  InitIdle /\ [][NextIdle]_vars /\ IdleTickFair /\ WF_vars(IdleClock)

\* C27: an Active voice has a strictly positive decay rate, and with no
\* further rising edge, sample ticks processed and the clock advancing it
\* returns to Idle, whatever algorithm and parameter are selected
C27_VoiceEnds ==
  /\ [](dsp.triggerActive => dsp.envDecayRate > 0)
  /\ dsp.triggerActive ~> ~dsp.triggerActive

\* a Bass voice triggered at the slowest rate, 1.5 Hz, was still Active when
\* a tick returned it to Idle
C27_Witness ==
  /\ last.name = "processNextSample"
  /\ last.pressed
  /\ last.wasActive
  /\ dsp.envDecayRate = DecayRateOf(ALGO_BASS, 0)
  /\ ~dsp.triggerActive

\* ------------------------------------------------------------------------
\* SpecCombo: the algorithm combo box of the desktop program.  The user
\* selects an index, a caller hands setParameters the normalised cv1 of an
\* index, and the display timer runs updateDisplay(); recorded are the last
\* call, the index the combo box shows and the index k the call asked for
\* ------------------------------------------------------------------------
\* calls in one behaviour of SpecCombo
MaxComboCalls == 4

InitCombo ==
  /\ platform = "simulator"
  /\ gui = MainWindowConstructed.g
  /\ adc = InitializeADCFilters
  /\ dsp = MainWindowConstructed.d
  /\ now = 0
  /\ ret = 0
  /\ i2s = 0
  /\ updates = 0
  /\ last = [ name |-> "init", index |-> MainWindowConstructed.index, k |-> -1 ]

\* the user selects index k in the combo box: onAlgorithmChanged(k)
ComboSelected ==
  /\ updates < MaxComboCalls
  /\ \E k \in (0..(NUM_ALGORITHMS - 1)) \ {last.index} :
       \E r \in {OnAlgorithmChangedOp(dsp, gui, k, now)} :
         /\ dsp' = r.d
         /\ gui' = r.g
         /\ last' = [ name |-> "onAlgorithmChanged", index |-> r.index, k |-> k ]
  /\ updates' = updates + 1
  /\ UNCHANGED << platform, adc, now, ret, i2s >>

\* setParameters(pitch, cv1, cv2, gate) with cv1 = k / 7 and the other
\* arguments as updateParameters() computes them
ComboSetParameters ==
  /\ updates < MaxComboCalls
  /\ \E k \in 0..(NUM_ALGORITHMS - 1) :
       /\ dsp' = SetParametersOp(dsp, now,
                   ((gui.currentPitchCV - PITCH_CV_MIN) * NORM_UNIT)
                     \div (PITCH_CV_MAX - PITCH_CV_MIN),
                   (k * NORM_UNIT) \div (NUM_ALGORITHMS - 1),
                   ((gui.currentCV2 - CV2_MIN) * NORM_UNIT) \div (CV2_MAX - CV2_MIN),
                   gui.gateState)
       /\ last' = [last EXCEPT !.name = "setParameters", !.k = k]
  /\ updates' = updates + 1
  /\ UNCHANGED << platform, adc, gui, now, ret, i2s >>

\* the display timer fires while the combo box does not show the engine's
\* algorithm: updateDisplay()
ComboUpdateDisplay ==
  /\ updates < MaxComboCalls
  /\ last.index # dsp.currentAlgorithm
  /\ \E r \in {UpdateDisplayOp(dsp, gui, last.index, now)} :
       /\ dsp' = r.d
       /\ gui' = r.g
       /\ last' = [ name |-> "updateDisplay", index |-> r.index, k |-> -1 ]
  /\ updates' = updates + 1
  /\ UNCHANGED << platform, adc, now, ret, i2s >>

NextCombo ==
  \/ ComboSelected
  \/ ComboSetParameters
  \/ ComboUpdateDisplay

SpecCombo == InitCombo /\ [][NextCombo]_vars

\* C28: for every index k in 0..7, selecting k in the combo box, or calling
\* setParameters with cv1 = k / 7, leaves the engine's current algorithm
\* equal to k
C28_SelectionRoundTrips ==
  last.name \in {"onAlgorithmChanged", "setParameters"} => dsp.currentAlgorithm = last.k

\* ------------------------------------------------------------------------
\* SpecIndex: the read index of the delay line.  The desktop engine with
\* setSampleRate calls, the CV1 slider moved to Karplus-Strong or Bass, the
\* gate button and sample ticks; recorded are the setSampleRate calls so far,
\* whether a tick has set the index from the frequency and whether the index
\* has wrapped from the last slot to the first
\* ------------------------------------------------------------------------
\* sample ticks in one behaviour of SpecIndex
MaxIndexTicks == 52

\* control updates in one behaviour of SpecIndex
MaxIndexUpdates == 3

\* setSampleRate calls in one behaviour of SpecIndex
MaxIndexRateChanges == 2

\* the sample ticks during which the controls move and setSampleRate is
\* called; only sample ticks follow
MaxIndexEarlyTicks == 5

\* the sample rates handed to setSampleRate: at 15000 Hz the delay of an
\* 80 Hz voice is 187 samples, at 48000 Hz it is beyond the capacity
IndexSampleRates == {15000, 48000}

\* positions of the CV1 slider (ADC counts): Bass and Karplus-Strong
IndexCV1Values == {100, 1000}

InitIndex ==
  /\ platform = "simulator"
  /\ gui = MainWindowConstructed.g
  /\ adc = InitializeADCFilters
  /\ dsp = MainWindowConstructed.d
  /\ now = 0
  /\ ret = 0
  /\ i2s = 0
  /\ updates = 0
  /\ last = [ name |-> "init", rates |-> 0, reseeded |-> FALSE, wrapped |-> FALSE ]

IndexSetSampleRate ==
  /\ last.rates < MaxIndexRateChanges
  /\ dsp.sampleCount < MaxIndexEarlyTicks
  /\ \E sr \in IndexSampleRates \ {dsp.sampleRate} :
       dsp' = SetSampleRate(dsp, sr)
  /\ last' = [last EXCEPT !.name = "setSampleRate", !.rates = @ + 1]
  /\ UNCHANGED << platform, adc, gui, now, ret, i2s, updates >>

\* a GUI slot of SpecIndex: the control changes to g, then updateParameters()
IndexUpdate(g) ==
  /\ updates < MaxIndexUpdates
  /\ dsp.sampleCount < MaxIndexEarlyTicks
  /\ gui' = g
  /\ dsp' = UpdateParametersOp(dsp, now, g)
  /\ updates' = updates + 1
  /\ last' = [last EXCEPT !.name = "setParameters"]
  /\ UNCHANGED << platform, adc, now, ret, i2s >>

IndexCV1Changed ==
  \E value \in IndexCV1Values \ {gui.currentCV1} :
    IndexUpdate([gui EXCEPT !.currentCV1 = value])

IndexGateChanged ==
  \E gate \in BOOLEAN \ {gui.gateState} :
    IndexUpdate([gui EXCEPT !.gateState = gate])

\* the audio callback calls processNextSample
IndexTick ==
  /\ dsp.sampleCount < MaxIndexTicks
  /\ \E r \in {ProcessNextSampleOp(dsp, now)} :
       /\ dsp' = r.d
       /\ ret' = r.v
       /\ last' = [last EXCEPT
                     !.name = "processNextSample",
                     !.reseeded = @ \/ (/\ dsp.triggerActive
                                        /\ dsp.currentAlgorithm = ALGO_KARPLUS
                                        /\ r.d.karplusIndex
                                             # (dsp.karplusIndex + 1) % KARPLUS_BUFFER_SIZE),
                     !.wrapped = @ \/ (/\ dsp.karplusIndex = KARPLUS_BUFFER_SIZE - 1
                                       /\ r.d.karplusIndex = 0)]
  /\ UNCHANGED << platform, adc, gui, now, i2s, updates >>

NextIndex ==
  \/ IndexSetSampleRate
  \/ IndexCV1Changed
  \/ IndexGateChanged
  \/ IndexTick

SpecIndex == InitIndex /\ [][NextIndex]_vars

\* C29: in every reachable state the Karplus-Strong read index is a slot of
\* the delay line, 0 <= karplusIndex < KARPLUS_BUFFER_SIZE, whatever triggers,
\* sample ticks, real-time frequency updates and setSampleRate calls came
C29_IndexInBounds ==
  /\ dsp.karplusIndex >= 0
  /\ dsp.karplusIndex < KARPLUS_BUFFER_SIZE

\* after a setSampleRate call a tick set the index from the frequency, and
\* later the index wrapped from the last slot to the first
C29_Witness ==
  /\ last.rates > 0
  /\ last.reseeded
  /\ last.wrapped
  /\ dsp.karplusIndex = 0

\* ------------------------------------------------------------------------
\* SpecHistory: two runs of the desktop engine side by side.  Both receive
\* the same control updates at the same host times; up to the last trigger
\* only the first run (dsp) has its samples rendered, the second (last.other)
\* renders none; from that trigger on both render the same ticks
\* ------------------------------------------------------------------------
\* sample ticks of each phase in one behaviour of SpecHistory
MaxHistoryTicks == 2

\* control updates in one behaviour of SpecHistory
MaxHistoryUpdates == 3

InitHistory ==
  /\ platform = "simulator"
  /\ gui = MainWindowConstructed.g
  /\ adc = InitializeADCFilters
  /\ dsp = MainWindowConstructed.d
  /\ now = 0
  /\ ret = 0
  /\ i2s = 0
  /\ updates = 0
  /\ last = [ name |-> "init", phase |-> "before", other |-> MainWindowConstructed.d,
              retOther |-> 0 ]

\* a GUI slot: the control changes to g, then updateParameters(), in both
\* runs; final tells whether the runs render together from here on
HistoryUpdate(g, final) ==
  /\ updates < MaxHistoryUpdates
  /\ last.phase = "before"
  /\ gui' = g
  /\ dsp' = UpdateParametersOp(dsp, now, g)
  /\ updates' = updates + 1
  /\ last' = [last EXCEPT !.name = IF final THEN "trigger" ELSE "setParameters",
                          !.phase = IF final THEN "after" ELSE "before",
                          !.other = UpdateParametersOp(last.other, now, g)]
  /\ UNCHANGED << platform, adc, now, ret, i2s >>

HistoryCV1Changed ==
  \E value \in CV1Values \ {gui.currentCV1} :
    HistoryUpdate([gui EXCEPT !.currentCV1 = value], FALSE)

HistoryGateChanged ==
  \E gate \in BOOLEAN \ {gui.gateState} :
    HistoryUpdate([gui EXCEPT !.gateState = gate], FALSE)

\* the gate press both runs render from
HistoryLastTrigger ==
  /\ ~gui.gateState
  /\ HistoryUpdate([gui EXCEPT !.gateState = TRUE], TRUE)

\* processNextSample in the first run only
HistoryTickBefore ==
  /\ last.phase = "before"
  /\ dsp.sampleCount < MaxHistoryTicks
  /\ \E r \in {ProcessNextSampleOp(dsp, now)} :
       /\ dsp' = r.d
       /\ ret' = r.v
  /\ last' = [last EXCEPT !.name = "processNextSample"]
  /\ UNCHANGED << platform, adc, gui, now, i2s, updates >>

\* processNextSample in both runs
HistoryTickAfter ==
  /\ last.phase = "after"
  /\ last.other.sampleCount < MaxHistoryTicks
  /\ \E r \in {ProcessNextSampleOp(dsp, now)},
        s \in {ProcessNextSampleOp(last.other, now)} :
       /\ dsp' = r.d
       /\ ret' = r.v
       /\ last' = [last EXCEPT !.name = "processNextSample", !.other = s.d,
                               !.retOther = s.v]
  /\ UNCHANGED << platform, adc, gui, now, i2s, updates >>

NextHistory ==
  \/ HistoryCV1Changed
  \/ HistoryGateChanged
  \/ HistoryLastTrigger
  \/ HistoryTickBefore
  \/ HistoryTickAfter
  \/ ClockAdvance

SpecHistory == InitHistory /\ [][NextHistory]_vars

\* the state the generators read besides the envelopes: the noise state, the
\* delay line, the histories of the bandpass and the resonant filter and the
\* anti-alias memory
C30_GeneratorState(d) ==
  << d.noiseState, d.karplusBuffer,
     d.bpf.x1, d.bpf.x2, d.bpf.y1, d.bpf.y2,
     d.bassFilter.x1, d.bassFilter.x2, d.bassFilter.y1, d.bassFilter.y2,
     d.lastSample >>

\* C30: two runs that differ only in what was rendered before a trigger
\* hold the same generator state right after the trigger, and return the
\* same samples from then on
C30_TriggerForgetsHistory ==
  last.phase = "after" =>
    /\ last.name = "trigger" => C30_GeneratorState(dsp) = C30_GeneratorState(last.other)
    /\ last.name = "processNextSample" => ret = last.retOther

====
